---------------------------- MODULE Spec2Model ----------------------------
(***************************************************************************)
(* A model of the Copilot Context Executor extension (src/src/extension.ts)*)
(* : the "start work" flow of CopilotContextViewProvider, its tracker      *)
(* requests, the attachment policies, the git branch preparation and the   *)
(* issue search.                                                           *)
(*                                                                         *)
(* Text is modelled as a tuple of one-character strings, so that the       *)
(* code's String.includes / toLowerCase / template literals are computed   *)
(* and not assumed.                                                        *)
(***************************************************************************)
EXTENDS Integers, Sequences, FiniteSets, TLC

VARIABLES
  flow,       \* the handler the webview message dispatched to
  run,        \* invocation id -> the locals of that asynchronous invocation
  repo,       \* the git state of the target directory
  log,        \* everything observable, in order: requests, git commands, messages
  store,      \* the persisted settings (vscode configuration / globalState)
  tracker,    \* tracker-side state: the keys whose transition POST was applied
  disk,       \* paths of the files written by fs.writeFileSync
  workspace   \* vscode.workspace.workspaceFolders?.[0]?.uri.fsPath

vars == <<flow, run, repo, log, store, tracker, disk, workspace>>

-----------------------------------------------------------------------------
(* Text                                                                    *)

\* String.prototype.toLowerCase, character by character
RECURSIVE ToLower(_)
ToLower(s) ==
  LET upper == <<"A","B","C","D","E","F","G","H","I","J","K","L","M",
                 "N","O","P","Q","R","S","T","U","V","W","X","Y","Z">>
      lower == <<"a","b","c","d","e","f","g","h","i","j","k","l","m",
                 "n","o","p","q","r","s","t","u","v","w","x","y","z">>
      lowerChar(c) == IF \E i \in 1..26 : upper[i] = c
                        THEN lower[CHOOSE i \in 1..26 : upper[i] = c]
                        ELSE c
  IN IF s = <<>> THEN <<>> ELSE <<lowerChar(Head(s))>> \o ToLower(Tail(s))

\* String.prototype.includes
Includes(s, sub) ==
  \E i \in 0..(Len(s) - Len(sub)) : SubSeq(s, i + 1, i + Len(sub)) = sub

\* the decimal digits of a natural number, as a template literal prints it
RECURSIVE Digits(_)
Digits(n) ==
  LET digit == <<"0","1","2","3","4","5","6","7","8","9">>
  IN IF n < 10 THEN <<digit[n + 1]>>
     ELSE Digits(n \div 10) \o <<digit[(n % 10) + 1]>>

\* Array.prototype.join
RECURSIVE Join(_, _)
Join(parts, sep) ==
  IF parts = <<>> THEN <<>>
  ELSE IF Len(parts) = 1 THEN Head(parts)
  ELSE Head(parts) \o sep \o Join(Tail(parts), sep)

(***************************************************************************)
(* Texts.  A text is a tuple of one-character strings.                      *)
(***************************************************************************)

(* Texts the runtime produces: separators of template literals, segments of
   path.join, messages of the errors execSync, fetch and json() throw. *)
Runtime ==
  [ master |->
        <<"m","a","s","t","e","r">>,
    slash |->
        <<"/">>,
    CommandFailed |->
        <<"C","o","m","m","a","n","d"," ","f","a","i","l","e","d",":",
        " ">>,
    colon_space |->
        <<":"," ">>,
    space |->
        <<" ">>,
    dash |->
        <<" ","-"," ">>,
    fetch_failed |->
        <<"f","e","t","c","h"," ","f","a","i","l","e","d">>,
    TypeError |->
        <<"C","a","n","n","o","t"," ","r","e","a","d"," ","p","r","o","p",
        "e","r","t","i","e","s"," ", "o","f"," ","u","n","d","e","f","i",
        "n","e","d">>,
    SyntaxError |->
        <<"U","n","e","x","p","e","c","t","e","d"," ","t","o","k","e","n",
        " ","<"," ","i","n"," ","J", "S","O","N"," ","a","t"," ","p","o",
        "s","i","t","i","o","n"," ","0">>,
    EACCES |->
        <<"E","A","C","C","E","S",":"," ","p","e","r","m","i","s","s","i",
        "o","n"," ","d","e","n","i", "e","d">>,
    dotdot |->
        <<".",".">>,
    dot |->
        <<".">>,
    CannotOpen |->
        <<"F","i","l","e"," ","s","e","e","m","s"," ","t","o"," ","b","e",
        " ","b","i","n","a","r","y", " ","a","n","d"," ","c","a","n","n",
        "o","t"," ","b","e"," ","o","p","e","n","e","d"," ","a", "s"," ",
        "t","e","x","t">>,
    undefined |->
        <<"u","n","d","e","f","i","n","e","d">>,
    NullType |->
        <<"C","a","n","n","o","t"," ","r","e","a","d"," ","p","r","o","p",
        "e","r","t","i","e","s"," ","o","f"," ","n","u","l","l"," ","(",
        "r","e","a","d","i","n","g"," ","'","t","y","p","e","'",")">>,
    NotAFunction |->
        <<"n","o","d","e",".","c","o","n","t","e","n","t",".","f","o","r",
        "E","a","c","h"," ","i","s"," ","n","o","t"," ","a"," ","f","u",
        "n","c","t","i","o","n">>,
    InvalidCount |->
        <<"I","n","v","a","l","i","d"," ","c","o","u","n","t"," ","v","a",
        "l","u","e",":"," ","-","1">> ]

(* Texts of the inputs: issue key, branch names of the repository, status
   texts and bodies of responses, names of attachments, labels, directories. *)
Input ==
  [ dev |->
        <<"d","e","v">>,
    maintenance |->
        <<"m","a","i","n","t","e","n","a","n","c","e">>,
    PROJ7 |->
        <<"P","R","O","J","-","7">>,
    OK |->
        <<"O","K">>,
    NoContent |->
        <<"N","o"," ","C","o","n","t","e","n","t">>,
    Unauthorized |->
        <<"U","n","a","u","t","h","o","r","i","z","e","d">>,
    NotFound |->
        <<"N","o","t"," ","F","o","u","n","d">>,
    Gone |->
        <<"G","o","n","e">>,
    ServerError |->
        <<"I","n","t","e","r","n","a","l"," ","S","e","r","v","e","r"," ",
        "E","r","r","o","r">>,
    StartProgress |->
        <<"S","t","a","r","t"," ","P","r","o","g","r","e","s","s">>,
    Done |->
        <<"D","o","n","e">>,
    BeginWork |->
        <<"B","e","g","i","n"," ","w","o","r","k">>,
    Resume |->
        <<"R","e","s","u","m","e">>,
    Started |->
        <<"S","t","a","r","t","e","d">>,
    ToDo |->
        <<"T","o"," ","D","o">>,
    notes_txt |->
        <<"n","o","t","e","s",".","t","x","t">>,
    text_plain |->
        <<"t","e","x","t","/","p","l","a","i","n">>,
    diagram_png |->
        <<"d","i","a","g","r","a","m",".","p","n","g">>,
    image_png |->
        <<"i","m","a","g","e","/","p","n","g">>,
    dump_zip |->
        <<"d","u","m","p",".","z","i","p">>,
    application_zip |->
        <<"a","p","p","l","i","c","a","t","i","o","n","/","z","i","p">>,
    spec_pdf |->
        <<"s","p","e","c",".","p","d","f">>,
    application_pdf |->
        <<"a","p","p","l","i","c","a","t","i","o","n","/","p","d","f">>,
    evil_name |->
        <<".",".","/",".",".","/","e","v","i","l",".","s","h">>,
    url1 |->
        <<"h","t","t","p","s",":","/","/","j","i","r","a","/","a","t","t",
        "/","1">>,
    url2 |->
        <<"h","t","t","p","s",":","/","/","j","i","r","a","/","a","t","t",
        "/","2">>,
    url3 |->
        <<"h","t","t","p","s",":","/","/","j","i","r","a","/","a","t","t",
        "/","3">>,
    url4 |->
        <<"h","t","t","p","s",":","/","/","j","i","r","a","/","a","t","t",
        "/","4">>,
    url5 |->
        <<"h","t","t","p","s",":","/","/","j","i","r","a","/","a","t","t",
        "/","5">>,
    Story |->
        <<"S","t","o","r","y">>,
    Bug |->
        <<"B","u","g">>,
    bug_fix |->
        <<"b","u","g","-","f","i","x">>,
    backend |->
        <<"b","a","c","k","e","n","d">>,
    Defect_label |->
        <<"D","e","f","e","c","t">>,
    hotFIX |->
        <<"h","o","t","F","I","X">>,
    FixLogin |->
        <<"F","i","x"," ","l","o","g","i","n">>,
    w |->
        <<"w">>,
    a |->
        <<"a">>,
    b |->
        <<"b">>,
    bug_proj7 |->
        <<"b","u","g","/","p","r","o","j","-","7">>,
    feature_proj7 |->
        <<"f","e","a","t","u","r","e","/","p","r","o","j","-","7">>,
    base_url |->
        <<"h","t","t","p","s",":","/","/","j","i","r","a">>,
    big_log |->
        <<"b","i","g",".","l","o","g">>,
    url6 |->
        <<"h","t","t","p","s",":","/","/","j","i","r","a","/","a","t","t",
        "/","6">>,
    comment1 |->
        <<"R","e","p","r","o"," ","a","t","t","a","c","h","e","d">>,
    comment2 |->
        <<"S","e","e","n"," ","o","n"," ","p","r","o","d"," ">>,
    PROJ8 |->
        <<"P","R","O","J","-","8">>,
    PROJ9 |->
        <<"P","R","O","J","-","9">>,
    diff_a |->
        <<"d","i","f","f"," ","-","-","g","i","t"," ","a","/","a",".","t",
        "s"," ","b","/","a",".","t","s","\n","+","l","e","t"," ","a"," ",
        "="," ","1",";","\n">>,
    diff_b |->
        <<"d","i","f","f"," ","-","-","g","i","t"," ","a","/","b",".","t",
        "s"," ","b","/","b",".","t","s","\n","-","l","e","t"," ","b"," ",
        "="," ","2",";","\n">>,
    frag_a |->
        <<"F","i","x">>,
    frag_b |->
        <<"l","o","g","i","n"," ">>,
    frag_c |->
        <<" ","n","o","w">>,
    card_url |->
        <<"h","t","t","p","s",":","/","/","x","/","1">>,
    README_md |->
        <<"R","E","A","D","M","E",".","m","d">>,
    application_octet |->
        <<"a","p","p","l","i","c","a","t","i","o","n","/","o","c","t","e",
        "t","-","s","t","r","e","a","m">>,
    url7 |->
        <<"h","t","t","p","s",":","/","/","j","i","r","a","/","a","t","t",
        "/","7">>,
    file_text |->
        <<"r","e","t","r","y"," ","t","w","i","c","e">>,
    Active |->
        <<"A","c","t","i","v","e">>,
    IN_PROGRESS |->
        <<"I","N"," ","P","R","O","G","R","E","S","S">>,
    ProductionDefect |->
        <<"P","r","o","d","u","c","t","i","o","n"," ","D","E","F","E","C",
        "T">>,
    format |->
        <<"f","o","r","m","a","t">>,
    wiki |->
        <<"w","i","k","i">>,
    value |->
        <<"v","a","l","u","e">>,
    jira_local |->
        <<"j","i","r","a",".","l","o","c","a","l">>,
    http_url |->
        <<"h","t","t","p",":","/","/","j","i","r","a">>,
    email |->
        <<"m","e","@","x",".","i","o">>,
    token |->
        <<"t","o","k">>,
    username |->
        <<"j","d","o","e">>,
    password |->
        <<"p","w">> ]

(* String literals of _fetchJiraIssues, _getJiraProjects, _callJiraAPI. *)
IssuesText ==
  [ FailedFetchProjects |->
        <<"F","a","i","l","e","d"," ","t","o"," ","f","e","t","c","h"," ",
        "p","r","o","j","e","c","t", "s",":"," ">>,
    JiraApiReturned |->
        <<"J","i","r","a"," ","A","P","I"," ","r","e","t","u","r","n","e",
        "d"," ">>,
    TeamManagedTail |->
        <<"."," ","T","h","i","s"," ","m","a","y"," ","b","e"," ","a"," ",
        "t","e","a","m","-","m","a", "n","a","g","e","d"," ","p","r","o",
        "j","e","c","t"," ","w","i","t","h"," ","l","i","m","i", "t","e",
        "d"," ","A","P","I"," ","a","c","c","e","s","s",".">>,
    InvalidResponse |->
        <<"I","n","v","a","l","i","d"," ","r","e","s","p","o","n","s","e",
        " ","f","r","o","m"," ","J", "i","r","a"," ","A","P","I">>,
    n410 |->
        <<"4","1","0">>,
    SearchUnavailable |->
        <<"J","i","r","a"," ","s","e","a","r","c","h"," ","A","P","I"," ",
        "u","n","a","v","a","i","l", "a","b","l","e","."," ","T","h","i",
        "s"," ","o","f","t","e","n"," ","h","a","p","p","e","n", "s"," ",
        "w","i","t","h"," ","n","e","w"," ","a","c","c","o","u","n","t",
        "s","."," ","T","r", "y"," ","c","r","e","a","t","i","n","g"," ",
        "a"," ","p","r","o","j","e","c","t"," ","a","n", "d"," ","s","o",
        "m","e"," ","i","s","s","u","e","s"," ","f","i","r","s","t",".">>,
    FailedFetchIssues |->
        <<"F","a","i","l","e","d"," ","t","o"," ","f","e","t","c","h"," ",
        "J","i","r","a"," ","i","s", "s","u","e","s",":"," ">>,
    PleaseConfigure |->
        <<"P","l","e","a","s","e"," ","c","o","n","f","i","g","u","r","e",
        " ","J","i","r","a"," ","f", "i","r","s","t">>,
    NoProjects |->
        <<"N","o"," ","J","i","r","a"," ","p","r","o","j","e","c","t","s",
        " ","f","o","u","n","d",".", " ","Y","o","u"," ","n","e","e","d",
        " ","t","o"," ","c","r","e","a","t","e"," ","a"," ","p", "r","o",
        "j","e","c","t"," ","f","i","r","s","t",".">>,
    NoIssuesAssigned |->
        <<" ","p","r","o","j","e","c","t","(","s",")"," ","b","u","t"," ",
        "n","o"," ","i","s","s","u", "e","s"," ","a","s","s","i","g","n",
        "e","d"," ","t","o"," ","y","o","u","."," ","C","r","e", "a","t",
        "e"," ","s","o","m","e"," ","i","s","s","u","e","s"," ","t","o",
        " ","g","e","t"," ", "s","t","a","r","t","e","d",".">>,
    Found |->
        <<"F","o","u","n","d"," ">> ]

(* String literals of _startWorkOnIssue. *)
StartWorkText ==
  [ JiraNotConfigured |->
        <<"J","i","r","a"," ","n","o","t"," ","c","o","n","f","i","g","u",
        "r","e","d">>,
    ErrorPrefix |->
        <<"E","r","r","o","r",":"," ">> ]

(* String literals of _getIssueType. *)
TypeText ==
  [ bug |->
        <<"b","u","g">>,
    defect |->
        <<"d","e","f","e","c","t">>,
    fix |->
        <<"f","i","x">> ]

(* String literals of _setupGitBranch. *)
GitText ==
  [ main |->
        <<"m","a","i","n">>,
    feature |->
        <<"f","e","a","t","u","r","e">>,
    git_revparse_gitdir |->
        <<"g","i","t"," ","r","e","v","-","p","a","r","s","e"," ","-","-",
        "g","i","t","-","d","i","r">>,
    git_init |->
        <<"g","i","t"," ","i","n","i","t">>,
    git_add |->
        <<"g","i","t"," ","a","d","d"," ",".">>,
    git_commit |->
        <<"g","i","t"," ","c","o","m","m","i","t"," ","-","m"," ","\"",
        "I","n","i","t","i","a","l", " ","c","o","m","m","i","t","\"">>,
    git_branch_M_main |->
        <<"g","i","t"," ","b","r","a","n","c","h"," ","-","M"," ","m","a",
        "i","n">>,
    git_revparse_head |->
        <<"g","i","t"," ","r","e","v","-","p","a","r","s","e"," ","-","-",
        "a","b","b","r","e","v","-", "r","e","f"," ","H","E","A","D">>,
    git_branch |->
        <<"g","i","t"," ","b","r","a","n","c","h">>,
    git_branch_main |->
        <<"g","i","t"," ","b","r","a","n","c","h"," ","m","a","i","n">>,
    git_checkout |->
        <<"g","i","t"," ","c","h","e","c","k","o","u","t"," ">>,
    git_pull |->
        <<"g","i","t"," ","p","u","l","l"," ","o","r","i","g","i","n"," ",
        "m","a","i","n">>,
    git_checkout_b |->
        <<"g","i","t"," ","c","h","e","c","k","o","u","t"," ","-","b",
        " ">>,
    GitInitialized |->
        <<"G","i","t"," ","r","e","p","o","s","i","t","o","r","y"," ","i",
        "n","i","t","i","a","l","i", "z","e","d"," ","w","i","t","h"," ",
        "m","a","i","n"," ","b","r","a","n","c","h">>,
    SwitchedExisting |->
        <<"S","w","i","t","c","h","e","d"," ","t","o"," ","e","x","i","s",
        "t","i","n","g"," ","b","r", "a","n","c","h",":"," ">>,
    CreatedNew |->
        <<"C","r","e","a","t","e","d"," ","a","n","d"," ","s","w","i","t",
        "c","h","e","d"," ","t","o", " ","n","e","w"," ","b","r","a","n",
        "c","h",":"," ">>,
    GitSetupFailed |->
        <<"G","i","t"," ","s","e","t","u","p"," ","f","a","i","l","e","d",
        ":"," ">>,
    ContinuingWithoutGit |->
        <<"."," ","C","o","n","t","i","n","u","i","n","g"," ","w","i","t",
        "h","o","u","t"," ","G","i", "t"," ","s","e","t","u","p",".">> ]

(* String literals of _transitionIssueToInProgress. *)
TransitionText ==
  [ CouldNotUpdateStatus |->
        <<"C","o","u","l","d"," ","n","o","t"," ","u","p","d","a","t","e",
        " ","s","t","a","t","u","s", " ","t","o"," ","\"","I","n"," ","P",
        "r","o","g","r","e","s","s","\"",":"," ">>,
    FailedGetTransitions |->
        <<"F","a","i","l","e","d"," ","t","o"," ","g","e","t"," ","t","r",
        "a","n","s","i","t","i","o", "n","s"," ","f","o","r"," ">>,
    AlreadyInProgress |->
        <<" ","i","s"," ","a","l","r","e","a","d","y"," ","i","n"," ","p",
        "r","o","g","r","e","s","s">>,
    CouldNotAuto |->
        <<"C","o","u","l","d"," ","n","o","t"," ","a","u","t","o","-","t",
        "r","a","n","s","i","t","i", "o","n"," ">>,
    CouldNotAutoTail |->
        <<" ","t","o"," ","\"","I","n"," ","P","r","o","g","r","e","s",
        "s","\"","."," ","C","u","r", "r","e","n","t"," ","w","o","r","k",
        "f","l","o","w"," ","m","a","y"," ","n","o","t"," ","s", "u","p",
        "p","o","r","t"," ","t","h","i","s"," ","t","r","a","n","s","i",
        "t","i","o","n",".">>,
    FailedTransition |->
        <<"F","a","i","l","e","d"," ","t","o"," ","t","r","a","n","s","i",
        "t","i","o","n"," ">>,
    Transitioned |->
        <<" ","t","r","a","n","s","i","t","i","o","n","e","d"," ","t","o",
        " ","\"","I","n"," ","P", "r","o","g","r","e","s","s","\"">>,
    in_progress |->
        <<"i","n"," ","p","r","o","g","r","e","s","s">>,
    start |->
        <<"s","t","a","r","t">>,
    active |->
        <<"a","c","t","i","v","e">>,
    InProgress |->
        <<"I","n"," ","P","r","o","g","r","e","s","s">>,
    NoTransitionAvailable |->
        <<"N","o"," ","\"","I","n"," ","P","r","o","g","r","e","s","s","\"",
        " ","t","r","a","n","s","i","t","i","o","n"," ","a","v","a","i",
        "l","a","b","l","e"," ","f","o","r"," ">>,
    AvailableTransitions |->
        <<"."," ","A","v","a","i","l","a","b","l","e"," ","t","r","a","n",
        "s","i","t","i","o","n","s",":">> ]

(* String literals of _fetchFullIssueDetailsWithAttachments, _buildIssueContext. *)
ContextText ==
  [ FailedFetchIssue |->
        <<"F","a","i","l","e","d"," ","t","o"," ","f","e","t","c","h"," ",
        "i","s","s","u","e"," ">>,
    jira_context |->
        <<".","j","i","r","a","-","c","o","n","t","e","x","t">>,
    NoDescription |->
        <<"N","o"," ","d","e","s","c","r","i","p","t","i","o","n"," ","p",
        "r","o","v","i","d","e","d", ".">> ]

(* String literals of _executeWithContextAndFiles, _sendToCopilotWithAttachments. *)
SendText ==
  [ PromptSent |->
        <<"P","r","o","m","p","t"," ","s","e","n","t"," ","t","o"," ","C",
        "o","p","i","l","o","t"," ", "C","h","a","t","!">>,
    FilesOpened |->
        <<" ","f","i","l","e","(","s",")"," ","o","p","e","n","e","d",":",
        " ">>,
    comma_space |->
        <<","," ">> ]

\* the texts of _createUnitTests, _stageGitChanges and _getGitChangeset
\* (lines 438-515)
TestsText ==
  [ NoChanges |->
        <<"N","o"," ","c","h","a","n","g","e","s"," ","d","e","t","e","c",
        "t","e","d","."," ","P","l","e","a","s","e"," ","m","a","k","e",
        " ","c","o","d","e"," ","c","h","a","n","g","e","s"," ","f","i",
        "r","s","t",".">>,
    UnitTestSent |->
        <<"U","n","i","t"," ","t","e","s","t"," ","p","r","o","m","p","t",
        " ","s","e","n","t"," ","t","o"," ","C","o","p","i","l","o","t",
        "!"," ","A","f","t","e","r"," ","t","e","s","t","s"," ","a","r",
        "e"," ","c","r","e","a","t","e","d",","," ","c","l","i","c","k",
        " ","\"","R","u","n"," ","&"," ","F","i","x"," ","T","e","s","t",
        "s","\"",".">>,
    FailedStage |->
        <<"F","a","i","l","e","d"," ","t","o"," ","s","t","a","g","e"," ",
        "c","h","a","n","g","e","s","."," ","M","a","k","e"," ","s","u",
        "r","e"," ","y","o","u"," ","h","a","v","e"," ","G","i","t"," ",
        "i","n","i","t","i","a","l","i","z","e","d",".">>,
    git_diff_cached |->
        <<"g","i","t"," ","d","i","f","f"," ","-","-","c","a","c","h","e",
        "d">>,
    git_diff |->
        <<"g","i","t"," ","d","i","f","f">> ]

\* the texts of _extractTextFromADF (lines 1227, 1233); the grave accent of a
\* code fence is written "grave"
AdfText ==
  [ fence_open |->
        <<"grave","grave","grave","\n">>,
    fence_close |->
        <<"\n","grave","grave","grave","\n","\n">> ]

\* the texts of the attachment loop of _fetchFullIssueDetails (lines 1100-1114)
InlineText ==
  [ text_ |->
        <<"t","e","x","t","/">>,
    application_json |->
        <<"a","p","p","l","i","c","a","t","i","o","n","/","j","s","o","n">>,
    application_yaml |->
        <<"a","p","p","l","i","c","a","t","i","o","n","/","y","a","m","l">>,
    application_yml |->
        <<"a","p","p","l","i","c","a","t","i","o","n","/","y","m","l">>,
    md |->
        <<".","m","d">>,
    txt |->
        <<".","t","x","t">>,
    json |->
        <<".","j","s","o","n">>,
    yaml |->
        <<".","y","a","m","l">>,
    yml |->
        <<".","y","m","l">>,
    xml |->
        <<".","x","m","l">>,
    image_ |->
        <<"i","m","a","g","e","/">>,
    application_pdf |->
        <<"a","p","p","l","i","c","a","t","i","o","n","/","p","d","f">>,
    application_msword |->
        <<"a","p","p","l","i","c","a","t","i","o","n","/","m","s","w","o",
        "r","d">>,
    application_vnd |->
        <<"a","p","p","l","i","c","a","t","i","o","n","/","v","n","d",".",
        "o","p","e","n","x","m","l","f","o","r","m","a","t","s">> ]

\* the texts of activate (lines 1869-1873)
ActivateText ==
  [ PromptSent |->
        <<"P","r","o","m","p","t"," ","s","e","n","t"," ","t","o"," ","C",
        "o","p","i","l","o","t"," ","C","h","a","t">>,
    open_paren |->
        <<" ","(">>,
    FilesOpened |->
        <<" ","f","i","l","e","(","s",")"," ","o","p","e","n","e","d",":",
        " ">>,
    Analyze |->
        <<"."," ","C","o","p","i","l","o","t"," ","w","i","l","l"," ","a",
        "n","a","l","y","z","e"," ","t","h","e","m"," ","a","u","t","o",
        "m","a","t","i","c","a","l","l","y","!",")">> ]

\* the texts of _configureJira (lines 112-217)
ConfigureText ==
  [ Cloud |->
        <<"C","l","o","u","d">>,
    DataCenter |->
        <<"D","a","t","a"," ","C","e","n","t","e","r">>,
    cloud |->
        <<"c","l","o","u","d">>,
    datacenter |->
        <<"d","a","t","a","c","e","n","t","e","r">>,
    http |->
        <<"h","t","t","p",":","/","/">>,
    https |->
        <<"h","t","t","p","s",":","/","/">>,
    Saved |->
        <<"J","i","r","a"," ","c","o","n","f","i","g","u","r","a","t","i",
        "o","n"," ","s","a","v","e","d"," ","s","u","c","c","e","s","s",
        "f","u","l","l","y","!">> ]

-----------------------------------------------------------------------------
(* The git repository of the target directory, and the commands            *)
(* _setupGitBranch runs in it with execSync.                               *)

\* a directory that is no repository and holds files.  dirty: the working tree
\* holds something `git add .` stages; born: HEAD points at a commit; staged and
\* unstaged: the files that differ between HEAD and the index, and between the
\* index and the working tree
NonRepo ==
  [isRepo |-> FALSE, born |-> FALSE, branches |-> {}, current |-> <<>>, dirty |-> TRUE,
   staged |-> {}, unstaged |-> {}]

\* a directory that is no repository and holds nothing
EmptyDir ==
  [NonRepo EXCEPT !.dirty = FALSE]

\* a branch name that keeps the issue key as it was given
BranchNameAsGiven(issueKey, issueType) ==
  (IF issueType = "bug" THEN TypeText.bug ELSE GitText.feature) \o Runtime.slash \o issueKey

\* the branch name of _setupGitBranch: `${branchPrefix}/${issueKey.toLowerCase()}`
BranchName(issueKey, issueType) ==
  (IF issueType = "bug" THEN TypeText.bug ELSE GitText.feature) \o Runtime.slash \o ToLower(issueKey)

\* the text `git branch` prints: one line per local branch, the current one starred
RECURSIVE BranchLines(_, _)
BranchLines(bs, current) ==
  IF bs = {} THEN <<>>
  ELSE LET b == CHOOSE x \in bs : TRUE
       IN (IF b = current THEN <<"*", " ">> ELSE <<" ", " ">>) \o b \o <<"\n">>
            \o BranchLines(bs \ {b}, current)

\* the text `git diff` prints for a set of changed files
DiffLines(files) ==
  (IF "a.ts" \in files THEN Input.diff_a ELSE <<>>)
    \o (IF "b.ts" \in files THEN Input.diff_b ELSE <<>>)

\* what git does with one command in repository r: whether it exits 0, the
\* repository afterwards and the text on stdout.  `git commit` exits 1 when
\* nothing is staged; rev-parse HEAD, branch and checkout -b need a commit;
\* `git add .` moves what differs in the working tree into the index
GitSem(r, kind, arg) ==
  CASE kind = "revparse_gitdir" ->
         [ok |-> r.isRepo, repo |-> r, out |-> <<>>]
    [] kind = "init" ->
         [ok |-> TRUE,
          repo |-> IF r.isRepo THEN r
                   ELSE [isRepo |-> TRUE, born |-> FALSE, branches |-> {},
                         current |-> Runtime.master, dirty |-> r.dirty,
                         staged |-> {}, unstaged |-> {}],
          out |-> <<>>]
    [] kind = "add" ->
         [ok |-> r.isRepo,
          repo |-> IF r.isRepo
                     THEN [r EXCEPT !.staged = @ \cup r.unstaged, !.unstaged = {}]
                     ELSE r,
          out |-> <<>>]
    [] kind = "commit" ->
         IF r.isRepo /\ r.dirty
           THEN [ok |-> TRUE,
                 repo |-> [r EXCEPT !.born = TRUE, !.branches = @ \cup {r.current},
                                    !.dirty = FALSE],
                 out |-> <<>>]
           ELSE [ok |-> FALSE, repo |-> r, out |-> <<>>]
    [] kind = "rename_main" ->
         IF r.isRepo /\ r.born
           THEN [ok |-> TRUE,
                 repo |-> [r EXCEPT !.branches = (@ \ {r.current}) \cup {GitText.main},
                                    !.current = GitText.main],
                 out |-> <<>>]
           ELSE [ok |-> FALSE, repo |-> r, out |-> <<>>]
    [] kind = "revparse_head" ->
         IF r.isRepo /\ r.born
           THEN [ok |-> TRUE, repo |-> r, out |-> r.current \o <<"\n">>]
           ELSE [ok |-> FALSE, repo |-> r, out |-> <<>>]
    [] kind = "branch_list" ->
         [ok |-> r.isRepo, repo |-> r,
          out |-> IF r.isRepo THEN BranchLines(r.branches, r.current) ELSE <<>>]
    [] kind = "branch_main" ->
         IF r.isRepo /\ r.born /\ GitText.main \notin r.branches
           THEN [ok |-> TRUE, repo |-> [r EXCEPT !.branches = @ \cup {GitText.main}],
                 out |-> <<>>]
           ELSE [ok |-> FALSE, repo |-> r, out |-> <<>>]
    [] kind = "checkout_main" ->
         IF r.isRepo /\ GitText.main \in r.branches
           THEN [ok |-> TRUE, repo |-> [r EXCEPT !.current = GitText.main], out |-> <<>>]
           ELSE [ok |-> FALSE, repo |-> r, out |-> <<>>]
    [] kind = "pull" ->
         [ok |-> r.isRepo /\ r.born, repo |-> r, out |-> <<>>]
    [] kind = "checkout_issue" ->
         IF r.isRepo /\ arg \in r.branches
           THEN [ok |-> TRUE, repo |-> [r EXCEPT !.current = arg], out |-> <<>>]
           ELSE [ok |-> FALSE, repo |-> r, out |-> <<>>]
    [] kind = "checkout_new" ->
         IF r.isRepo /\ r.born /\ arg \notin r.branches
           THEN [ok |-> TRUE,
                 repo |-> [r EXCEPT !.branches = @ \cup {arg}, !.current = arg],
                 out |-> <<>>]
           ELSE [ok |-> FALSE, repo |-> r, out |-> <<>>]
    [] kind = "diff_cached" ->
         [ok |-> r.isRepo, repo |-> r,
          out |-> IF r.isRepo THEN DiffLines(r.staged) ELSE <<>>]
    [] kind = "diff" ->
         [ok |-> r.isRepo, repo |-> r,
          out |-> IF r.isRepo THEN DiffLines(r.unstaged) ELSE <<>>]

\* String.prototype.trim
Trim(s) ==
  LET RECURSIVE TrimEnd(_)
      TrimEnd(t) ==
        IF t # <<>> /\ t[Len(t)] \in {" ", "\n"}
          THEN TrimEnd(SubSeq(t, 1, Len(t) - 1)) ELSE t
      RECURSIVE TrimStart(_)
      TrimStart(t) ==
        IF t # <<>> /\ Head(t) \in {" ", "\n"} THEN TrimStart(Tail(t)) ELSE t
  IN TrimStart(TrimEnd(s))

\* The state threaded through one run of _setupGitBranch: the repository, the
\* commands run and messages shown so far, and whether an exception is in flight.
\* genv is what the environment does to this run: genv.fail names a command that
\* exits non-zero whatever the repository holds (no identity configured, local
\* changes in the way, no git binary), genv.pullFails says whether `git pull origin main` fails.
GitStart(r, genv) ==
  [repo |-> r, genv |-> genv, evs |-> <<>>, thrown |-> FALSE, err |-> <<>>,
   out |-> <<>>, currentBranch |-> <<>>]

\* execSync(line, {cwd: directory}): throws `Command failed: ${line}` on a
\* non-zero exit
ExecSync(g, kind, arg) ==
  LET line ==
        CASE kind = "revparse_gitdir" -> GitText.git_revparse_gitdir
          [] kind = "init"            -> GitText.git_init
          [] kind = "add"             -> GitText.git_add
          [] kind = "commit"          -> GitText.git_commit
          [] kind = "rename_main"     -> GitText.git_branch_M_main
          [] kind = "revparse_head"   -> GitText.git_revparse_head
          [] kind = "branch_list"     -> GitText.git_branch
          [] kind = "branch_main"     -> GitText.git_branch_main
          [] kind = "checkout_main"   -> GitText.git_checkout \o GitText.main
          [] kind = "pull"            -> GitText.git_pull
          [] kind = "checkout_issue"  -> GitText.git_checkout \o arg
          [] kind = "checkout_new"    -> GitText.git_checkout_b \o arg
          [] kind = "diff_cached"     -> TestsText.git_diff_cached
          [] kind = "diff"            -> TestsText.git_diff
      forced == kind = g.genv.fail \/ (kind = "pull" /\ g.genv.pullFails)
      res == IF forced THEN [ok |-> FALSE, repo |-> g.repo, out |-> <<>>]
             ELSE GitSem(g.repo, kind, arg)
  IN [g EXCEPT !.repo = res.repo,
               !.evs = Append(@, [ev |-> "git", a |-> kind, b |-> line, c |-> res.ok]),
               !.thrown = ~res.ok,
               !.err = IF res.ok THEN <<>> ELSE Runtime.CommandFailed \o line,
               !.out = res.out]

\* a statement that is skipped while an exception propagates
Then(g, kind, arg) ==
  IF g.thrown THEN g ELSE ExecSync(g, kind, arg)

\* a catch block that swallows the exception
Caught(g) ==
  [g EXCEPT !.thrown = FALSE, !.err = <<>>]

\* vscode.window.show*Message, skipped while an exception propagates
Show(g, level, text) ==
  IF g.thrown THEN g
  ELSE [g EXCEPT !.evs = Append(@, [ev |-> "msg", a |-> level, b |-> text, c |-> FALSE])]

\* lines 679-690: probe for a repository; when the probe throws, create one
DetectRepo(g) ==
  LET probe == Then(g, "revparse_gitdir", <<>>)
  IN IF ~g.thrown /\ probe.thrown
       THEN Show(Then(Then(Then(Then(Caught(probe), "init", <<>>), "add", <<>>),
                           "commit", <<>>), "rename_main", <<>>),
                 "info", GitText.GitInitialized)
       ELSE probe

\* lines 692-702: read the current branch, list the branches, create main
\* when the listing does not include the text "main"
EnsureMain(g) ==
  LET head == Then(g, "revparse_head", <<>>)
      named == IF head.thrown THEN head
               ELSE [head EXCEPT !.currentBranch = Trim(head.out)]
      listed == Then(named, "branch_list", <<>>)
  IN IF ~listed.thrown /\ ~Includes(listed.out, GitText.main)
       THEN Then(listed, "branch_main", <<>>)
       ELSE listed

\* a run that stays on the branch it found
AlignMainSkipped(g) ==
  g

\* lines 704-708: switch to main unless the branch read before was main
AlignMain(g) ==
  IF ~g.thrown /\ g.currentBranch # GitText.main THEN Then(g, "checkout_main", <<>>) ELSE g

\* lines 710-716: pull, any failure swallowed
SyncMain(g) ==
  IF g.thrown THEN g ELSE Caught(ExecSync(g, "pull", <<>>))

\* lines 718-732: switch to the issue branch, or create it when the switch throws
PrepareBranch(g, issueKey, issueType) ==
  LET branchName == BranchName(issueKey, issueType)
      switched == ExecSync(g, "checkout_issue", branchName)
  IN IF g.thrown THEN g
     ELSE IF ~switched.thrown
       THEN Show(switched, "info", GitText.SwitchedExisting \o branchName)
       ELSE Show(Then(Caught(switched), "checkout_new", branchName),
                 "info", GitText.CreatedNew \o branchName)

\* a catch that swallows what was thrown and tells the user nothing
GitCatchSilent(g) ==
  Caught(g)

\* lines 734-741: the outer catch turns whatever was thrown into a warning
GitCatch(g) ==
  IF g.thrown
    THEN Show(Caught(g), "warn", GitText.GitSetupFailed \o g.err \o GitText.ContinuingWithoutGit)
    ELSE g

\* _setupGitBranch(directory, issueKey, issueType, progress), from the first
\* execSync to its return; execSync blocks, so nothing else runs in between
SetupGitBranch(r, issueKey, issueType, genv) ==
  GitCatch(PrepareBranch(SyncMain(AlignMain(EnsureMain(DetectRepo(GitStart(r, genv))))),
                         issueKey, issueType))

\* what the environment may do to one run of _setupGitBranch
GitEnvs ==
  [fail : {"none", "revparse_gitdir", "init", "add", "commit", "rename_main",
           "revparse_head", "branch_list", "branch_main", "checkout_main",
           "checkout_issue", "checkout_new"},
   pullFails : BOOLEAN]

-----------------------------------------------------------------------------
(* Invocations                                                             *)

\* the events of one step, stamped with the invocation that produced them
RECURSIVE Stamped(_, _)
Stamped(i, evs) ==
  IF evs = <<>> THEN <<>>
  ELSE <<[inv |-> i, ev |-> Head(evs).ev, a |-> Head(evs).a, b |-> Head(evs).b,
          c |-> Head(evs).c]>> \o Stamped(i, Tail(evs))

Event(ev, a, b, c) ==
  [ev |-> ev, a |-> a, b |-> b, c |-> c]

-----------------------------------------------------------------------------
(* The tracker's REST boundary.  A response is what `await fetch(...)`     *)
(* gives: either it throws (threw) or it carries an HTTP status and a body.*)

\* Response.ok
Ok(resp) ==
  ~resp.threw /\ resp.status >= 200 /\ resp.status <= 299

\* Response.statusText
StatusText(status) ==
  CASE status = 200 -> Input.OK
    [] status = 204 -> Input.NoContent
    [] status = 401 -> Input.Unauthorized
    [] status = 404 -> Input.NotFound
    [] status = 410 -> Input.Gone
    [] status = 500 -> Input.ServerError
    [] OTHER -> <<>>

\* the setting copilotContextExecutor.jiraConfig when nothing was saved
NoConfig ==
  [type |-> "none", url |-> <<>>]

Threw ==
  [threw |-> TRUE, status |-> 0, body |-> [malformed |-> TRUE]]

\* a body that is not the JSON the code reads: json() throws on it, or a
\* field the code dereferences is missing
Malformed ==
  [malformed |-> TRUE]

\* the error a failed `await fetch` rejects with
NetworkError ==
  Runtime.fetch_failed

\* an event of the log for one request: the status, 0 when fetch threw
HttpEvent(name, target, resp) ==
  Event("http", name, target, IF resp.threw THEN 0 ELSE resp.status)

Msg(level, text) ==
  Event("msg", level, text, FALSE)

-----------------------------------------------------------------------------
(* _transitionIssueToInProgress (lines 744-836)                            *)

Transition(id, name, to) ==
  [id |-> id, named |-> TRUE, name |-> name, to |-> to]

\* the transitions a tracker may offer; `nameless` is an entry without a name:
\* t.name.toLowerCase() throws a TypeError on it
Tr ==
  [ start    |-> Transition("11", Input.StartProgress, TransitionText.InProgress),
    done     |-> Transition("31", Input.Done, Input.Done),
    begin    |-> Transition("21", Input.BeginWork, TransitionText.InProgress),
    resume   |-> Transition("41", Input.Resume, Input.Started),
    nameless |-> [id |-> "51", named |-> FALSE, name |-> <<>>,
                  to |-> TransitionText.InProgress] ]

NoTransition ==
  [id |-> "", named |-> FALSE, name |-> <<>>, to |-> <<>>]

\* lines 771-775: the predicate of transitions.find
IsInProgressTransition(t) ==
  \/ Includes(ToLower(t.name), TransitionText.in_progress)
  \/ Includes(ToLower(t.name), TransitionText.start)
  \/ Includes(ToLower(t.to), TransitionText.in_progress)

\* lines 771-775: Array.prototype.find, left to right; it throws at the first
\* entry without a name that it reaches
RECURSIVE FindInProgress(_)
FindInProgress(ts) ==
  IF ts = <<>> THEN [threw |-> FALSE, found |-> FALSE, t |-> NoTransition]
  ELSE IF ~Head(ts).named THEN [threw |-> TRUE, found |-> FALSE, t |-> NoTransition]
  ELSE IF IsInProgressTransition(Head(ts))
    THEN [threw |-> FALSE, found |-> TRUE, t |-> Head(ts)]
  ELSE FindInProgress(Tail(ts))

\* a catch that reports the failure as an error
TransitionCatchAsError(errorMsg) ==
  Msg("error", TransitionText.CouldNotUpdateStatus \o errorMsg)

\* lines 828-835: the catch of _transitionIssueToInProgress
TransitionCatch(errorMsg) ==
  Msg("warn", TransitionText.CouldNotUpdateStatus \o errorMsg)

\* lines 753-777: the transitions request and the choice of a transition
TransitionsListed(issueKey, resp) ==
  LET req == HttpEvent("GET transitions", issueKey, resp)
      find == FindInProgress(resp.body.transitions)
      caught(errorMsg) ==
        [pc |-> "fetch", evs |-> <<req, TransitionCatch(errorMsg)>>,
         transitions |-> <<>>, inProgressTransition |-> NoTransition]
  IN IF resp.threw THEN caught(NetworkError)
     ELSE IF ~Ok(resp)
       THEN caught(TransitionText.FailedGetTransitions \o issueKey \o Runtime.colon_space
                     \o Digits(resp.status))
     ELSE IF resp.body.malformed THEN caught(Runtime.SyntaxError)
     ELSE IF find.threw THEN caught(Runtime.TypeError)
     ELSE IF ~find.found
       THEN [pc |-> "t_status", evs |-> <<req>>,
             transitions |-> resp.body.transitions,
             inProgressTransition |-> NoTransition]
     ELSE [pc |-> "t_post", evs |-> <<req>>, transitions |-> resp.body.transitions,
           inProgressTransition |-> find.t]

\* a status lookup after which nothing is shown
StatusCheckedSilent(issueKey, transitions, resp) ==
  <<HttpEvent("GET status", issueKey, resp)>>

\* lines 778-804: no transition matched; look at the issue's current status.
\* The names of the transitions go to console.warn (797-798), the warning of
\* 799-801 is the fixed text with the issue key
StatusChecked(issueKey, transitions, resp) ==
  LET req == HttpEvent("GET status", issueKey, resp)
      currentStatus == ToLower(resp.body.statusName)
      names == [k \in DOMAIN transitions |-> transitions[k].name]
      giveUp == <<Event("console", "warn",
                        TransitionText.NoTransitionAvailable \o issueKey
                          \o TransitionText.AvailableTransitions,
                        Join(names, SendText.comma_space)),
                  Msg("warn", TransitionText.CouldNotAuto \o issueKey
                                \o TransitionText.CouldNotAutoTail)>>
  IN IF resp.threw THEN <<req, TransitionCatch(NetworkError)>>
     ELSE IF ~Ok(resp) THEN <<req>> \o giveUp
     ELSE IF resp.body.malformed THEN <<req, TransitionCatch(Runtime.TypeError)>>
     ELSE IF Includes(currentStatus, TransitionText.in_progress) \/ Includes(currentStatus, TransitionText.active)
       THEN <<req, Msg("info", issueKey \o TransitionText.AlreadyInProgress)>>
     ELSE <<req>> \o giveUp

\* lines 806-827: the transition POST
TransitionPosted(issueKey, t, resp) ==
  LET req == HttpEvent("POST transitions", t.id, resp)
  IN IF resp.threw THEN <<req, TransitionCatch(NetworkError)>>
     ELSE IF ~Ok(resp)
       THEN <<req, TransitionCatch(TransitionText.FailedTransition \o issueKey \o Runtime.colon_space
                                     \o Digits(resp.status) \o Runtime.dash
                                     \o resp.body.text)>>
     ELSE <<req, Msg("info", issueKey \o TransitionText.Transitioned)>>

-----------------------------------------------------------------------------
(* _extractTextFromADF (lines 1181-1252).  A node is a JavaScript value:   *)
(* js is "null" or "object"; an object has a type ("" when it has none), a *)
(* text (hasText), attrs.level (0 when absent), attrs.url and a content,   *)
(* which is absent, an array of nodes, or a string.  A result is the text  *)
(* returned, or the message of the error thrown.                           *)

RECURSIVE ProcessNode(_)
RECURSIVE ForEach(_, _, _)

\* node.content.forEach(...) of lines 1197, 1207, 1214, 1222, 1229 and 1239:
\* `how` is the body of the callback; index counts from 0.  A content that is
\* no array has no forEach; the first child that throws ends the loop
ForEach(content, how, index) ==
  IF content.js # "array" THEN [threw |-> TRUE, text |-> Runtime.NotAFunction]
  ELSE IF index >= Len(content.items) THEN [threw |-> FALSE, text |-> <<>>]
  ELSE LET child == ProcessNode(content.items[index + 1])
           piece == CASE how = "append"      -> child.text
                      [] how = "bulletList"  -> <<"-", " ">> \o Trim(child.text) \o <<"\n">>
                      [] how = "orderedList" -> Digits(index + 1) \o <<".", " ">>
                                                  \o Trim(child.text) \o <<"\n">>
                      [] how = "listItem"    -> Trim(child.text) \o <<" ">>
           rest == ForEach(content, how, index + 1)
       IN IF child.threw THEN child
          ELSE IF rest.threw THEN rest
          ELSE [threw |-> FALSE, text |-> piece \o rest.text]

\* a processNode that keeps text nodes and drops every other node
ProcessNodeTextOnly(node) ==
  IF node.js = "object" /\ node.type = "text"
    THEN [threw |-> FALSE, text |-> node.text]
    ELSE [threw |-> FALSE, text |-> <<>>]

\* lines 1188-1245: processNode
ProcessNode(node) ==
  LET truthy == node.content.js # "absent"
      done(t) == [threw |-> FALSE, text |-> t]
      \* the children rendered by `how`, between `before` and `after`
      with(before, how, after) ==
        LET r == ForEach(node.content, how, 0)
        IN IF ~truthy THEN done(after)
           ELSE IF r.threw THEN r
           ELSE done(before \o r.text \o after)
      level == IF node.level = 0 THEN 1 ELSE node.level
      prefix == [k \in 1..level |-> "#"]
  IN IF node.js = "null" THEN [threw |-> TRUE, text |-> Runtime.NullType]
     ELSE CASE node.type = "text" ->
                 done(IF node.hasText THEN node.text ELSE Runtime.undefined)
            [] node.type = "hardBreak" -> done(<<"\n">>)
            [] node.type = "paragraph" -> with(<<>>, "append", <<"\n", "\n">>)
            [] node.type = "heading" ->
                 IF level < 0 THEN [threw |-> TRUE, text |-> Runtime.InvalidCount]
                 ELSE with(prefix \o <<" ">>, "append", <<"\n", "\n">>)
            [] node.type \in {"bulletList", "orderedList"} ->
                 with(<<>>, node.type, <<"\n">>)
            [] node.type = "listItem" -> with(<<>>, "listItem", <<>>)
            [] node.type = "codeBlock" ->
                 IF truthy THEN with(AdfText.fence_open, "append", AdfText.fence_close)
                 ELSE done(AdfText.fence_open \o AdfText.fence_close)
            [] node.type \in {"inlineCard", "blockCard"} ->
                 done(IF node.url = <<>> THEN <<>>
                      ELSE <<"[">> \o node.url \o <<"]", "(">> \o node.url \o <<")">>)
            [] OTHER ->
                 IF truthy THEN with(<<>>, "append", <<>>) ELSE done(<<>>)

\* lines 1181-1252: '' for a missing document or one without content, else
\* the trimmed concatenation of the rendered top-level nodes
ExtractTextFromADF(adf) ==
  LET r == ForEach(adf.content, "append", 0)
  IN IF adf.js = "null" \/ adf.content.js = "absent"
       THEN [threw |-> FALSE, text |-> <<>>]
     ELSE IF r.threw THEN r
     ELSE [threw |-> FALSE, text |-> Trim(r.text)]

\* a description or comment body is handed to _extractTextFromADF
\* (lines 885, 900, 1033, 1048); an error thrown leaves the renderer
ExtractText(i) ==
  /\ flow = "extractText"
  /\ run[i].pc = "render"
  /\ LET r == ExtractTextFromADF(run[i].issue)
     IN /\ log' = log \o Stamped(i, <<Event(IF r.threw THEN "throw" ELSE "return",
                                            "_extractTextFromADF", r.text, FALSE)>>)
        /\ run' = [run EXCEPT ![i].pc = "done"]
  /\ UNCHANGED <<flow, repo, store, tracker, disk, workspace>>
-----------------------------------------------------------------------------
(* Paths (node:path join) and the attachment directory                     *)

\* the segments of a path text, split at "/"
RECURSIVE SplitPath(_, _)
SplitPath(s, seg) ==
  IF s = <<>> THEN <<seg>>
  ELSE IF Head(s) = "/" THEN <<seg>> \o SplitPath(Tail(s), <<>>)
  ELSE SplitPath(Tail(s), Append(seg, Head(s)))

\* path.normalize on segments: "" and "." are dropped, ".." removes the segment
\* before it (at the root it is dropped)
RECURSIVE NormalizeSegs(_, _)
NormalizeSegs(segs, acc) ==
  IF segs = <<>> THEN acc
  ELSE IF Head(segs) = <<>> \/ Head(segs) = Runtime.dot THEN NormalizeSegs(Tail(segs), acc)
  ELSE IF Head(segs) = Runtime.dotdot
    THEN NormalizeSegs(Tail(segs),
                       IF acc = <<>> THEN acc ELSE SubSeq(acc, 1, Len(acc) - 1))
  ELSE NormalizeSegs(Tail(segs), Append(acc, Head(segs)))

\* path.join(dir, name) for an absolute directory given as segments
PathJoin(dir, name) ==
  NormalizeSegs(dir \o SplitPath(name, <<>>), <<>>)

\* filePath.split(/[\\/]/).pop()
BaseName(path) ==
  IF path = <<>> THEN <<>> ELSE path[Len(path)]

\* line 937: path.join(workspaceRoot, '.jira-context', issue.key)
JiraContextDir(workspaceRoot, issueKey) ==
  PathJoin(PathJoin(workspaceRoot, ContextText.jira_context), issueKey)

\* workspaceFolders is undefined or empty
NoWorkspace ==
  <<>>

-----------------------------------------------------------------------------
(* The context document.  A document is the sequence of the pieces the code*)
(* appends to `context`, each a kind and the text it interpolates.         *)

Line(k, v) ==
  [k |-> k, v |-> v]

\* Math.round(n / d) for naturals
RoundDiv(n, d) ==
  (2 * n + d) \div (2 * d)

\* line 946: const maxSize = 5 * 1024 * 1024
MaxSize ==
  5 * 1024 * 1024

Attachment(filename, mimeType, size, content) ==
  [filename |-> filename, mimeType |-> mimeType, size |-> size, content |-> content]

\* a value of the issue JSON that the document shows as text: a string, null,
\* or an object with its `content` and its other properties, which are strings
\* here
Str(text) ==
  [js |-> "string", text |-> text, content |-> [js |-> "absent"], fields |-> <<>>]

\* lines 896, 914: JSON.stringify(value, null, 2) of an object without
\* `content` whose properties are strings with no character to escape
Stringify(fields) ==
  LET member(f) ==
        <<" ", " ", "\"">> \o f[1] \o <<"\"", ":", " ", "\"">> \o f[2] \o <<"\"">>
  IN IF fields = <<>> THEN <<"{", "}">>
     ELSE <<"{", "\n">>
            \o Join([k \in DOMAIN fields |-> member(fields[k])], <<",", "\n">>)
            \o <<"\n", "}">>

\* lines 890-900: the description as it enters the document, or the error
\* _extractTextFromADF throws; a missing or empty description is falsy
DescriptionText(description) ==
  IF description.js = "null" \/ (description.js = "string" /\ description.text = <<>>)
    THEN [threw |-> FALSE, text |-> ContextText.NoDescription]
  ELSE IF description.js = "string" THEN [threw |-> FALSE, text |-> description.text]
  ELSE IF description.content.js # "absent" THEN ExtractTextFromADF(description)
  ELSE [threw |-> FALSE, text |-> Stringify(description.fields)]

\* lines 908-915: the text of a comment body, or the error thrown
CommentText(body) ==
  IF body.js = "string" THEN [threw |-> FALSE, text |-> body.text]
  ELSE IF body.js = "object" /\ body.content.js # "absent" THEN ExtractTextFromADF(body)
  ELSE IF body.js = "null" THEN [threw |-> FALSE, text |-> <<"n", "u", "l", "l">>]
  ELSE [threw |-> FALSE, text |-> Stringify(body.fields)]

RECURSIVE CommentLines(_, _)
CommentLines(comments, index) ==
  IF index > Len(comments) THEN <<>>
  ELSE <<Line("comment_head", Digits(index)),
         Line("comment", CommentText(comments[index]).text)>>
         \o CommentLines(comments, index + 1)

RECURSIVE SubtaskLines(_)
SubtaskLines(subtasks) ==
  IF subtasks = <<>> THEN <<>>
  ELSE <<Line("subtask", Head(subtasks))>> \o SubtaskLines(Tail(subtasks))

RECURSIVE LinkLines(_)
LinkLines(links) ==
  IF links = <<>> THEN <<>>
  ELSE <<Line("link", Head(links))>> \o LinkLines(Tail(links))

RECURSIVE FileLines(_)
FileLines(files) ==
  IF files = <<>> THEN <<>>
  ELSE <<Line("file", BaseName(Head(files)))>> \o FileLines(Tail(files))

\* lines 894, 912: the first error _extractTextFromADF throws while the
\* description and then the comments are rendered
HeadThrown(issue) ==
  LET first(rendered) ==
        LET thrown == {k \in DOMAIN rendered : rendered[k].threw}
        IN IF thrown = {} THEN [threw |-> FALSE, text |-> <<>>]
           ELSE rendered[CHOOSE k \in thrown : \A m \in thrown : k <= m]
  IN first(<<DescriptionText(issue.description)>>
             \o [k \in DOMAIN issue.comments |-> CommentText(issue.comments[k])])

\* lines 872-919: title, metadata, description and comments
ContextHead(issue) ==
  <<Line("title", issue.key), Line("metadata", issue.typeName)>>
    \o (IF issue.labels # <<>> THEN <<Line("labels", Join(issue.labels, <<",", " ">>))>> ELSE <<>>)
    \o <<Line("description", DescriptionText(issue.description).text)>>
    \o (IF issue.comments # <<>>
          THEN <<Line("comments", Digits(Len(issue.comments)))>>
                 \o CommentLines(issue.comments, 1)
          ELSE <<>>)

\* lines 975-1007: subtasks, linked issues, the downloaded files and the task
ContextTail(issue, attachmentFiles) ==
  (IF issue.subtasks # <<>>
     THEN <<Line("subtasks", Digits(Len(issue.subtasks)))>> \o SubtaskLines(issue.subtasks)
     ELSE <<>>)
    \o (IF issue.issuelinks # <<>>
          THEN <<Line("links", <<>>)>> \o LinkLines(issue.issuelinks)
          ELSE <<>>)
    \o (IF attachmentFiles # <<>>
          THEN <<Line("files", <<>>)>> \o FileLines(attachmentFiles)
          ELSE <<>>)
    \o <<Line("task", <<>>)>>

\* lines 942-971, from the head of the loop at attachment `index` up to the next
\* `await fetch`: an attachment at or over maxSize gets its note and the loop goes
\* on; after the last attachment the rest of the document is appended
RECURSIVE AttachmentLoop(_, _, _, _)
AttachmentLoop(issue, index, context, attachmentFiles) ==
  IF index > Len(issue.attachment)
    THEN [pc |-> "fetched", attIndex |-> 0,
          context |-> context \o <<Line("attachments_end", <<>>)>>
                        \o ContextTail(issue, attachmentFiles)]
  ELSE LET att == issue.attachment[index]
           head == Line("attachment", att.filename)
       IN IF att.size < MaxSize
            THEN [pc |-> "download", attIndex |-> index,
                  context |-> Append(context, head)]
          ELSE AttachmentLoop(issue, index + 1,
                              context \o <<head,
                                Line("too_large", Digits(RoundDiv(att.size, 1024 * 1024)))>>,
                              attachmentFiles)

\* lines 871-940 and on: _buildIssueContext from its start to its first
\* `await fetch`, or to its return when there is none
BuildIssueContext(issue, workspaceRoot) ==
  LET from(head) ==
        LET noted == head \o <<Line("attachments", Digits(Len(issue.attachment))),
                               Line("attachments_note", issue.key)>>
        IN IF issue.attachment = <<>>
             THEN [pc |-> "fetched", attIndex |-> 0,
                   context |-> head \o ContextTail(issue, <<>>)]
           ELSE IF workspaceRoot = NoWorkspace
             THEN [pc |-> "fetched", attIndex |-> 0,
                   context |-> Append(noted, Line("no_workspace", <<>>))]
           ELSE AttachmentLoop(issue, 1, noted, <<>>)
  IN from(ContextHead(issue))

\* a download that lists the path whatever became of the request
DownloadedAlwaysListed(issue, index, resp, writeFails, workspaceRoot) ==
  LET att == issue.attachment[index]
  IN [evs |-> <<HttpEvent("GET attachment", att.content, resp)>>,
      lines |-> <<>>,
      files |-> <<PathJoin(JiraContextDir(workspaceRoot, issue.key), att.filename)>>]

\* lines 948-967: what the response to one attachment request adds.  A thrown
\* fetch and a throwing writeFileSync end in the catch; a non-2xx response
\* adds nothing
Downloaded(issue, index, resp, writeFails, workspaceRoot) ==
  LET att == issue.attachment[index]
      filePath == PathJoin(JiraContextDir(workspaceRoot, issue.key), att.filename)
      req == HttpEvent("GET attachment", att.content, resp)
  IN IF resp.threw \/ (Ok(resp) /\ writeFails)
       THEN [evs |-> <<req>>, lines |-> <<Line("could_not_download", att.content)>>,
             files |-> <<>>]
     ELSE IF Ok(resp)
       THEN [evs |-> <<req, Event("write", "writeFileSync", filePath, FALSE)>>,
             lines |-> <<Line("downloaded", att.filename)>>,
             files |-> <<filePath>>]
     ELSE [evs |-> <<req>>, lines |-> <<>>, files |-> <<>>]

-----------------------------------------------------------------------------
(* _fetchFullIssueDetailsWithAttachments (lines 838-869)                   *)

\* a detail fetch that returns an empty document whatever the answer was
FetchedIssueGoesOn(issueKey, resp, workspaceRoot, mkdirFails) ==
  [pc |-> "fetched", evs |-> <<HttpEvent("GET issue", issueKey, resp)>>, err |-> <<>>,
   attIndex |-> 0, context |-> <<>>]

\* the outcome of the issue request: the error thrown, or the document so far
\* and where _buildIssueContext waits next.  mkdirFails: fs.mkdirSync throws
FetchedIssue(issueKey, resp, workspaceRoot, mkdirFails) ==
  LET req == HttpEvent("GET issue", issueKey, resp)
      thrown(errorMsg) ==
        [pc |-> "failed", evs |-> <<req>>, err |-> errorMsg, attIndex |-> 0,
         context |-> <<>>]
      waiting(built) ==
        [pc |-> built.pc, evs |-> <<req>>, err |-> <<>>, attIndex |-> built.attIndex,
         context |-> built.context]
      \* _buildIssueContext: the description and the comments are rendered
      \* (890-919) before the attachment directory is made (936-940)
      build(head) ==
        IF head.threw THEN thrown(head.text)
        ELSE IF resp.body.attachment # <<>> /\ workspaceRoot # NoWorkspace /\ mkdirFails
          THEN thrown(Runtime.EACCES)
        ELSE waiting(BuildIssueContext(resp.body, workspaceRoot))
  IN IF resp.threw THEN thrown(NetworkError)
     ELSE IF ~Ok(resp)
       THEN thrown(ContextText.FailedFetchIssue \o issueKey \o Runtime.colon_space
                     \o Digits(resp.status) \o Runtime.space \o StatusText(resp.status))
     ELSE IF resp.body.malformed THEN thrown(Runtime.TypeError)
     ELSE build(HeadThrown(resp.body))

-----------------------------------------------------------------------------
(* _getIssueType (lines 633-673)                                           *)

\* a label test that forgets "fix"
IsBugLabelWithoutFix(l) ==
  Includes(l, TypeText.bug) \/ Includes(l, TypeText.defect)

\* line 657: the label test
IsBugLabel(l) ==
  Includes(l, TypeText.bug) \/ Includes(l, TypeText.defect) \/ Includes(l, TypeText.fix)

\* lines 654: (issue.fields.labels || []).map(l => l.toLowerCase())
RECURSIVE LowerAll(_)
LowerAll(labels) ==
  IF labels = <<>> THEN <<>> ELSE <<ToLower(Head(labels))>> \o LowerAll(Tail(labels))

\* a classification that never says bug
AlwaysFeature(resp) ==
  "feature"

\* lines 651-672: the classification from the response
GetIssueType(resp) ==
  LET issueTypeName == ToLower(resp.body.typeName)
      labels == LowerAll(resp.body.labels)
  IN IF resp.threw \/ ~Ok(resp) THEN "feature"
     ELSE IF resp.body.malformed THEN "feature"
     ELSE IF \E k \in 1..Len(labels) : IsBugLabel(labels[k]) THEN "bug"
     ELSE IF Includes(issueTypeName, TypeText.bug) \/ Includes(issueTypeName, TypeText.defect)
       THEN "bug"
     ELSE "feature"

-----------------------------------------------------------------------------
(* _fetchJiraIssues (lines 223-316), _getJiraProjects (318-343) and        *)
(* _callJiraAPI (345-436)                                                  *)

\* an entry of a search response; one that is not well formed lacks `fields`
\* or `fields.status`, and the map callback throws a TypeError on it
IssueEntry(key, wellFormed) ==
  [key |-> key, wellFormed |-> wellFormed]

\* lines 385-391 and 429-435: issues.map(...)
RECURSIVE MapIssues(_)
MapIssues(items) ==
  IF items = <<>> THEN [threw |-> FALSE, list |-> <<>>]
  ELSE IF ~Head(items).wellFormed THEN [threw |-> TRUE, list |-> <<>>]
  ELSE LET rest == MapIssues(Tail(items))
       IN IF rest.threw THEN rest
          ELSE [threw |-> FALSE, list |-> <<Head(items).key>> \o rest.list]

\* lines 383 and 425: data.issues && Array.isArray(data.issues)
HasIssueArray(body) ==
  body.issuesShape = "array"

\* a catch that shows every failure as an error
FetchIssuesCatchRaw(errorMsg) ==
  <<Msg("error", IssuesText.FailedFetchIssues \o errorMsg),
    Event("view", "setStatus", "Error fetching issues", FALSE)>>

\* lines 292-315: the catch of _fetchJiraIssues
FetchIssuesCatch(errorMsg) ==
  <<(IF Includes(errorMsg, IssuesText.n410)
       THEN Msg("warn", IssuesText.SearchUnavailable)
       ELSE Msg("error", IssuesText.FailedFetchIssues \o errorMsg)),
    Event("view", "setStatus", "Error fetching issues", FALSE)>>

\* lines 223-234: the start of _fetchJiraIssues, up to the projects request
FetchJiraIssuesStarted(config) ==
  IF config = NoConfig
    THEN [pc |-> "done",
          evs |-> <<Event("call", "_fetchJiraIssues", <<>>, FALSE),
                    Msg("warn", IssuesText.PleaseConfigure)>>]
    ELSE [pc |-> "r_projects",
          evs |-> <<Event("call", "_fetchJiraIssues", <<>>, FALSE),
                    Event("view", "setStatus", "Checking projects...", FALSE)>>]

\* lines 237-263 with _getJiraProjects: the projects response
ProjectsListed(resp) ==
  LET req == HttpEvent("GET project", <<>>, resp)
      thrown(errorMsg) ==
        [pc |-> "done", projects |-> 0,
         evs |-> <<req, Event("throw", "_getJiraProjects", errorMsg, FALSE)>>
                   \o FetchIssuesCatch(errorMsg)]
  IN IF resp.threw THEN thrown(NetworkError)
     ELSE IF ~Ok(resp)
       THEN thrown(IssuesText.FailedFetchProjects \o Digits(resp.status) \o Runtime.space
                     \o StatusText(resp.status))
     ELSE IF resp.body.malformed THEN thrown(Runtime.SyntaxError)
     ELSE IF resp.body.projects = 0
       THEN [pc |-> "done", projects |-> 0,
             evs |-> <<req, Msg("warn", IssuesText.NoProjects),
                       Event("view", "setStatus",
                             "No projects found. Create a project first.", FALSE)>>]
     ELSE [pc |-> "s_boards", projects |-> resp.body.projects,
           evs |-> <<req, Event("view", "setStatus", "Fetching issues...", FALSE)>>]

\* lines 267-291: what _fetchJiraIssues does with the list _callJiraAPI returned
IssuesShown(projects, list) ==
  <<Event("return", "_callJiraAPI", list, FALSE)>>
    \o (IF list = <<>>
          THEN <<Msg("info", IssuesText.Found \o Digits(projects) \o IssuesText.NoIssuesAssigned),
                 Event("view", "setStatus", "0 issues", FALSE)>>
          ELSE <<Event("view", "setIssues", list, FALSE)>>)

\* lines 353-367 and 394-398: tier (a), the boards response
BoardsListed(resp) ==
  LET req == HttpEvent("GET board", <<>>, resp)
  IN IF Ok(resp) /\ ~resp.body.malformed /\ resp.body.values # <<>>
       THEN [pc |-> "s_board_issues", evs |-> <<req>>, boardId |-> Head(resp.body.values)]
       ELSE [pc |-> "s_jql", evs |-> <<req>>, boardId |-> ""]

\* lines 368-398: tier (a), the response with the issues of the first board
BoardIssuesListed(resp, boardId, projects) ==
  LET req == HttpEvent("GET board issues", boardId, resp)
      mapped == MapIssues(resp.body.issues)
  IN IF Ok(resp) /\ ~resp.body.malformed /\ HasIssueArray(resp.body) /\ ~mapped.threw
       THEN [pc |-> "done", evs |-> <<req>> \o IssuesShown(projects, mapped.list)]
       ELSE [pc |-> "s_jql", evs |-> <<req>>]

\* a tier (b) that returns an empty list instead of throwing
JqlSearchedSilent(resp, projects) ==
  <<HttpEvent("GET search", <<>>, resp)>> \o IssuesShown(projects, <<>>)

\* lines 400-436: tier (b), the response to the JQL search
JqlSearched(resp, projects) ==
  LET req == HttpEvent("GET search", <<>>, resp)
      mapped == MapIssues(resp.body.issues)
      thrown(errorMsg) ==
        <<req, Event("throw", "_callJiraAPI", errorMsg, FALSE)>>
          \o FetchIssuesCatch(errorMsg)
  IN IF resp.threw THEN thrown(NetworkError)
     ELSE IF ~Ok(resp)
       THEN thrown(IssuesText.JiraApiReturned \o Digits(resp.status) \o Runtime.colon_space
                     \o StatusText(resp.status) \o IssuesText.TeamManagedTail)
     ELSE IF resp.body.malformed THEN thrown(Runtime.SyntaxError)
     ELSE IF ~HasIssueArray(resp.body) THEN thrown(IssuesText.InvalidResponse)
     ELSE IF mapped.threw THEN thrown(Runtime.TypeError)
     ELSE <<req>> \o IssuesShown(projects, mapped.list)

-----------------------------------------------------------------------------
(* What the environment may answer.  The handler a specification is about *)
(* (flow) gets the wide sets for its own requests; the requests of the    *)
(* handlers it only passes through get the narrow ones.                   *)

\* a fetch that threw, and the non-2xx answers, whose body is the text {}
Failures(statuses) ==
  {Threw} \cup [threw : {FALSE}, status : statuses,
                body : {[malformed |-> TRUE, text |-> <<"{", "}">>]}]

Successes(status, bodies) ==
  [threw : {FALSE}, status : {status}, body : bodies]

DirA ==
  <<Input.w, Input.a>>

DirB ==
  <<Input.w, Input.b>>

\* attachment descriptors: sizes on both sides of the ceiling of line 946,
\* `bigLog` over it by one byte with a MIME type of the text kind, `evil` with
\* a name that climbs out of the directory it is joined to
Att ==
  [ notes   |-> Attachment(Input.notes_txt, Input.text_plain, 1024, Input.url1),
    diagram |-> Attachment(Input.diagram_png, Input.image_png, 3 * 1024 * 1024, Input.url2),
    dump    |-> Attachment(Input.dump_zip, Input.application_zip, MaxSize, Input.url3),
    spec    |-> Attachment(Input.spec_pdf, Input.application_pdf, MaxSize - 1, Input.url4),
    bigLog  |-> Attachment(Input.big_log, Input.text_plain, MaxSize + 1, Input.url6),
    evil    |-> Attachment(Input.evil_name, Input.text_plain, 2048, Input.url5) ]

\* the issue of a detail response; a rich one has comments, a subtask and a
\* linked issue
IssueBody(key, attachment, rich) ==
  [malformed |-> FALSE, key |-> key, typeName |-> Input.Story, labels |-> <<>>,
   description |-> Str(Input.FixLogin),
   comments |-> IF rich THEN <<Str(Input.comment1), Str(Input.comment2)>> ELSE <<>>,
   attachment |-> attachment,
   subtasks |-> IF rich THEN <<Input.PROJ8>> ELSE <<>>,
   issuelinks |-> IF rich THEN <<Input.PROJ9>> ELSE <<>>]

\* the answers to the detail request for issue `key`: PROJ-8 has two
\* attachments under the size limit; for the inline document
\* the attachments are of every category, with sizes on both sides of 2 MiB and
\* of 5 MiB
IssueResponses(key) ==
  LET \* values of the description and of comment bodies: rich-text trees,
      \* an object without content, and an object whose content is no list
      text(t) == [js |-> "object", type |-> "text", hasText |-> TRUE, text |-> t,
                  level |-> 0, url |-> <<>>, content |-> [js |-> "absent"]]
      block(type, level, items) ==
        [js |-> "object", type |-> type, hasText |-> FALSE, text |-> <<>>,
         level |-> level, url |-> <<>>, content |-> [js |-> "array", items |-> items]]
      object(content, fields) ==
        [js |-> "object", text |-> <<>>, content |-> content, fields |-> fields]
      tree == object([js |-> "array",
                      items |-> <<block("paragraph", 0, <<text(Input.frag_a),
                                                          text(Input.frag_b)>>)>>],
                     <<>>)
      tree2 == object([js |-> "array",
                       items |-> <<block("heading", 1, <<text(Input.frag_c)>>),
                                   block("paragraph", 0, <<text(Input.frag_a)>>)>>],
                      <<>>)
      other == object([js |-> "absent"],
                      <<<<Input.format, Input.wiki>>, <<Input.value, Input.frag_b>>>>)
      contentText == object([js |-> "string"], <<>>)
      plain == Str(Input.FixLogin)
      shaped ==
        {[IssueBody(key, <<>>, FALSE) EXCEPT !.description = d, !.comments = cs] :
           d \in {plain, tree, other, contentText},
           cs \in {<<>>, <<Str(Input.comment1), tree, other>>, <<other, plain>>,
                   <<tree2, tree>>, <<plain, contentText>>}}
      \* a file of the text kind by its name only
      readme == Attachment(Input.README_md, Input.application_octet, 1024, Input.url7)
      sized(att, size) == [att EXCEPT !.size = size]
      bodies ==
        IF flow = "fetchIssue"
          THEN {IssueBody(key, atts, rich) :
                  atts \in {<<>>, <<Att.notes>>, <<Att.dump, Att.notes>>,
                            <<Att.spec, Att.diagram>>, <<Att.bigLog, Att.evil>>,
                            <<Att.notes, Att.dump, Att.diagram>>},
                  rich \in BOOLEAN} \cup shaped
        ELSE IF flow = "fetchFullIssueDetails"
          THEN {IssueBody(key, atts, FALSE) :
                  atts \in {<<>>, <<sized(Att.diagram, 1024), sized(Att.notes, 1024)>>,
                            <<sized(Att.dump, 1024), sized(Att.spec, 2 * 1024 * 1024),
                              sized(readme, 1024)>>}
                           \cup {<<sized(att, size)>> :
                                   att \in {Att.notes, readme, Att.diagram, Att.spec, Att.dump},
                                   size \in {1024, 2 * 1024 * 1024 - 1, 2 * 1024 * 1024,
                                             5 * 1024 * 1024 - 1, 5 * 1024 * 1024}}}
        ELSE IF key = Input.PROJ8
          THEN {IssueBody(key, <<Att.spec, Att.notes>>, FALSE)}
        ELSE {IssueBody(key, atts, FALSE) : atts \in {<<>>, <<Att.dump, Att.notes>>}}
  IN Failures({404, 500}) \cup Successes(200, {Malformed} \cup bodies)

\* the answers to every other request, by the request they answer
Answers(request) ==
  LET wide(f) == flow = f
      \* bodies of a search response: no `issues`, `issues` that is no array,
      \* and arrays of entries
      searchBodies ==
        IF wide("fetchJiraIssues")
          THEN {Malformed,
                [malformed |-> FALSE, issuesShape |-> "absent", issues |-> <<>>],
                [malformed |-> FALSE, issuesShape |-> "object", issues |-> <<>>]}
               \cup [malformed : {FALSE}, issuesShape : {"array"},
                     issues : {<<>>, <<IssueEntry(Input.PROJ7, TRUE)>>,
                               <<IssueEntry(Input.PROJ7, TRUE),
                                 IssueEntry(Input.PROJ7, FALSE)>>}]
          ELSE {[malformed |-> FALSE, issuesShape |-> "array",
                 issues |-> <<IssueEntry(Input.PROJ7, TRUE)>>]}
      transitionLists ==
        IF wide("transitionIssue")
          THEN {<<>>, <<Tr.done>>, <<Tr.done, Tr.start>>, <<Tr.begin, Tr.start>>,
                <<Tr.resume>>, <<Tr.nameless, Tr.start>>, <<Tr.start, Tr.nameless>>,
                <<Tr.start, Tr.begin>>, <<Tr.done, Tr.resume>>, <<Tr.done, Tr.begin>>,
                <<Tr.resume, Tr.start>>, <<Tr.done, Tr.resume, Tr.begin>>}
          ELSE {<<Tr.done>>, <<Tr.done, Tr.start>>}
  IN CASE request = "transitions" ->
            Failures({404}) \cup
            Successes(200, (IF wide("transitionIssue") THEN {Malformed} ELSE {})
                             \cup [malformed : {FALSE}, transitions : transitionLists])
       [] request = "status" ->
            IF wide("transitionIssue")
              THEN Failures({404}) \cup
                   Successes(200, {Malformed} \cup
                                  [malformed : {FALSE},
                                   statusName : {Input.ToDo, TransitionText.InProgress,
                                                 Input.IN_PROGRESS, Input.Active}])
              ELSE {Threw} \cup
                   Successes(200, {[malformed |-> FALSE, statusName |-> Input.ToDo]})
       [] request = "post" ->
            Failures({500}) \cup Successes(204, {[malformed |-> FALSE]})
       [] request = "attachment" ->
            Failures(IF wide("fetchIssue") THEN {404, 500} ELSE {404})
              \cup Successes(200, {[malformed |-> FALSE]})
       [] request = "inline attachment" ->
            Failures({404})
              \cup Successes(200, {Malformed, [malformed |-> FALSE, text |-> Input.file_text]})
       [] request = "type" ->
            IF wide("getIssueType")
              THEN Failures({404}) \cup
                   Successes(200, {Malformed} \cup
                                  [malformed : {FALSE},
                                   typeName : {Input.Story, Input.Bug,
                                               Input.ProductionDefect},
                                   labels : {<<>>, <<Input.backend>>, <<Input.bug_fix>>,
                                             <<Input.backend, Input.hotFIX>>,
                                             <<Input.Defect_label>>}])
              ELSE {Threw} \cup
                   Successes(200, [malformed : {FALSE}, typeName : {Input.Story},
                                   labels : {<<>>, <<Input.bug_fix>>}])
       [] request = "projects" ->
            IF wide("fetchJiraIssues")
              THEN Failures({410, 500}) \cup
                   Successes(200, {Malformed}
                                    \cup [malformed : {FALSE}, projects : {0, 1, 2}])
              ELSE Successes(200, {[malformed |-> FALSE, projects |-> 2]})
       [] request = "boards" ->
            IF wide("fetchJiraIssues")
              THEN Failures({404}) \cup
                   Successes(200, {Malformed}
                                    \cup [malformed : {FALSE}, values : {<<>>, <<"7">>}])
              ELSE Failures({404})
                     \cup Successes(200, {[malformed |-> FALSE, values |-> <<"7">>]})
       [] request = "board issues" ->
            IF wide("fetchJiraIssues")
              THEN Failures({404}) \cup Successes(200, searchBodies)
              ELSE Successes(200, searchBodies)
       [] request = "jql" ->
            IF wide("fetchJiraIssues")
              THEN Failures({410, 500}) \cup Successes(200, searchBodies)
              ELSE Successes(200, searchBodies)

\* the settings before anything was configured or stored
EmptyStore ==
  [jiraConfig |-> NoConfig, pendingPrompt |-> <<>>, pendingAttachments |-> <<>>,
   jiraPartialConfig |-> <<>>]

\* the locals of an invocation that has not started
NewRun ==
  [pc |-> "idle", directory |-> <<>>, issueKey |-> <<>>, issueType |-> "",
   gitRuns |-> <<>>, transitions |-> <<>>, inProgressTransition |-> NoTransition,
   issue |-> Malformed, attIndex |-> 0, context |-> <<>>, attachmentFiles |-> <<>>,
   projects |-> 0, boardId |-> "", last |-> [step |-> "none"], partialConfig |-> <<>>]
-----------------------------------------------------------------------------
(* The handlers as steps.  One action is the code of a handler between two *)
(* `await`s on the environment: it consumes the answer to the pending      *)
(* request and runs to the next request.                                   *)

\* where an invocation goes after the transition step returned
AfterTransition ==
  IF flow = "startWork" THEN "fetch" ELSE "done"

\* a start work that goes from the detail fetch straight to the git setup
AfterFetchToGit ==
  "git"

\* where an invocation goes after the detail fetch returned
AfterFetch ==
  IF flow = "startWork" THEN "classify" ELSE "done"

\* a catch that shows nothing
StartWorkCatchSilent(errorMsg) ==
  <<>>

\* lines 628-630: the catch of _startWorkOnIssue
StartWorkCatch(errorMsg) ==
  IF flow = "startWork" THEN <<Msg("error", StartWorkText.ErrorPrefix \o errorMsg)>> ELSE <<>>

\* whether fs.mkdirSync and fs.writeFileSync may throw in this flow
DiskFaults ==
  IF flow = "fetchIssue" THEN BOOLEAN ELSE {FALSE}

\* lines 588-603: the message { command: 'startWork', directory, issueKey },
\* whose fields the invocation holds from the start
StartWorkOnIssue(i) ==
  /\ flow = "startWork"
  /\ run[i].pc = "idle"
  /\ \E directory \in {run[i].directory}, issueKey \in {run[i].issueKey} :
       LET call == Event("call", "_startWorkOnIssue", directory, issueKey)
       IN IF store.jiraConfig = NoConfig
            THEN /\ log' = log \o Stamped(i, <<call, Msg("warn", StartWorkText.JiraNotConfigured)>>)
                 /\ run' = [run EXCEPT ![i].pc = "done"]
            ELSE /\ log' = log \o Stamped(i, <<call>>)
                 /\ run' = [run EXCEPT ![i].pc = "t_list", ![i].directory = directory,
                                       ![i].issueKey = issueKey]
  /\ UNCHANGED <<flow, repo, store, tracker, disk, workspace>>

\* lines 753-777: the answer to the transitions request
TransitionsList(i) ==
  /\ run[i].pc = "t_list"
  /\ \E resp \in Answers("transitions") :
       LET o == TransitionsListed(run[i].issueKey, resp)
       IN /\ log' = log \o Stamped(i, o.evs)
          /\ run' = [run EXCEPT
                       ![i].pc = IF o.pc = "fetch" THEN AfterTransition ELSE o.pc,
                       ![i].transitions = o.transitions,
                       ![i].inProgressTransition = o.inProgressTransition,
                       ![i].last = [step |-> "transitions", resp |-> resp]]
  /\ UNCHANGED <<flow, repo, store, tracker, disk, workspace>>

\* lines 778-804: the answer to the status request
TransitionStatus(i) ==
  /\ run[i].pc = "t_status"
  /\ \E resp \in Answers("status") :
       /\ log' = log \o Stamped(i, StatusChecked(run[i].issueKey, run[i].transitions,
                                                  resp))
       /\ run' = [run EXCEPT ![i].pc = AfterTransition, ![i].transitions = <<>>,
                             ![i].last = [step |-> "status", resp |-> resp,
                                          listed |-> run[i].transitions]]
  /\ UNCHANGED <<flow, repo, store, tracker, disk, workspace>>

\* lines 806-827: the answer to the transition POST; a 2xx answer means the
\* tracker moved the issue
TransitionPost(i) ==
  /\ run[i].pc = "t_post"
  /\ \E resp \in Answers("post") :
       /\ log' = log \o Stamped(i, TransitionPosted(run[i].issueKey,
                                                   run[i].inProgressTransition, resp))
       /\ tracker' = IF Ok(resp) THEN tracker \cup {run[i].issueKey} ELSE tracker
       /\ run' = [run EXCEPT ![i].pc = AfterTransition, ![i].transitions = <<>>,
                             ![i].inProgressTransition = NoTransition,
                             ![i].last = [step |-> "post", resp |-> resp,
                                          listed |-> run[i].transitions]]
  /\ UNCHANGED <<flow, repo, store, disk, workspace>>

\* lines 850-868 with 871-940: the answer to the issue request
FetchIssue(i) ==
  /\ run[i].pc = "fetch"
  /\ \E resp \in IssueResponses(run[i].issueKey), mkdirFails \in DiskFaults :
       LET name == "_fetchFullIssueDetailsWithAttachments"
           step(o) ==
             LET end == CASE o.pc = "failed" ->
                               <<Event("throw", name, o.err, FALSE)>> \o StartWorkCatch(o.err)
                          [] o.pc = "fetched" -> <<Event("return", name, o.context, <<>>)>>
                          [] OTHER -> <<>>
             IN /\ log' = log \o Stamped(i, o.evs \o end)
                /\ run' = [run EXCEPT
                             ![i].pc = CASE o.pc = "failed" -> "done"
                                         [] o.pc = "fetched" -> AfterFetch
                                         [] OTHER -> "download",
                             ![i].issue = IF o.pc = "failed" THEN Malformed ELSE resp.body,
                             ![i].attIndex = o.attIndex,
                             ![i].context = o.context,
                             ![i].attachmentFiles = <<>>,
                             ![i].last = [step |-> "fetch", resp |-> resp]]
       IN step(FetchedIssue(run[i].issueKey, resp, workspace, mkdirFails))
  /\ UNCHANGED <<flow, repo, store, tracker, disk, workspace>>

\* lines 948-971: the answer to an attachment request, and the loop up to the
\* next request or to the return of _fetchFullIssueDetailsWithAttachments
DownloadAttachment(i) ==
  /\ run[i].pc = "download"
  /\ \E resp \in Answers("attachment"), writeFails \in DiskFaults :
       LET r == run[i]
           d == Downloaded(r.issue, r.attIndex, resp, writeFails, workspace)
           files == r.attachmentFiles \o d.files
           next == AttachmentLoop(r.issue, r.attIndex + 1, r.context \o d.lines, files)
           end == IF next.pc = "fetched"
                    THEN <<Event("return", "_fetchFullIssueDetailsWithAttachments",
                                 next.context, files)>>
                    ELSE <<>>
       IN /\ log' = log \o Stamped(i, d.evs \o end)
          /\ disk' = disk \cup {d.files[k] : k \in 1..Len(d.files)}
          /\ run' = [run EXCEPT
                       ![i].pc = IF next.pc = "fetched" THEN AfterFetch ELSE "download",
                       ![i].attIndex = next.attIndex,
                       ![i].context = next.context,
                       ![i].attachmentFiles = files]
  /\ UNCHANGED <<flow, repo, store, tracker, workspace>>

\* lines 633-673: the answer to the request of _getIssueType
GetIssueTypeStep(i) ==
  /\ run[i].pc = "classify"
  /\ \E resp \in Answers("type") :
       /\ log' = log \o Stamped(i, <<HttpEvent("GET issue type", run[i].issueKey, resp)>>)
       /\ run' = [run EXCEPT ![i].pc = "git",
                             ![i].issueType = GetIssueType(resp),
                             ![i].last = [step |-> "classify", resp |-> resp]]
  /\ UNCHANGED <<flow, repo, store, tracker, disk, workspace>>

-----------------------------------------------------------------------------
(* _executeWithContextAndFiles (lines 1300-1332) and                       *)
(* _sendToCopilotWithAttachments (1334-1384)                               *)

\* lines 608-615: the document with the fixed instructions appended
ContextWithInstructions(context) ==
  Append(context, Line("instructions", <<>>))

\* attachmentFiles.map(f => f.split(/[\\/]/).pop()).join(', ')
RECURSIVE FileNames(_)
FileNames(files) ==
  IF files = <<>> THEN <<>>
  ELSE IF Len(files) = 1 THEN BaseName(Head(files))
  ELSE BaseName(Head(files)) \o SendText.comma_space \o FileNames(Tail(files))

\* what opening the files and the chat may do: all succeed, showTextDocument
\* throws on a file, or a chat command throws
SendOutcomes(files) ==
  {"sent", "chat_failed"} \cup (IF files # <<>> THEN {"open_failed"} ELSE {})

\* lines 1300-1309: the hand-off, up to the first await
ExecuteWithContextAndFiles(i) ==
  /\ run[i].pc = "handoff"
  /\ LET payload == ContextWithInstructions(run[i].context)
         call == Event("call", "_executeWithContextAndFiles", payload,
                       run[i].attachmentFiles)
     IN IF workspace = run[i].directory
          THEN /\ log' = log \o Stamped(i, <<call>>)
               /\ run' = [run EXCEPT ![i].pc = "send", ![i].last = [step |-> "none"]]
               /\ store' = store
          ELSE /\ log' = log \o Stamped(i, <<call, Event("store", "pendingPrompt",
                                                         payload, FALSE)>>)
               /\ run' = [run EXCEPT ![i].pc = "store_attachments", ![i].last = [step |-> "none"]]
               /\ store' = [store EXCEPT !.pendingPrompt = payload]
  /\ UNCHANGED <<flow, repo, tracker, disk, workspace>>

\* lines 1318-1322: the second update, after the first one resolved
StorePendingAttachments(i) ==
  /\ run[i].pc = "store_attachments"
  /\ log' = log \o Stamped(i, <<Event("store", "pendingAttachments",
                                       run[i].attachmentFiles, FALSE)>>)
  /\ store' = [store EXCEPT !.pendingAttachments = run[i].attachmentFiles]
  /\ run' = [run EXCEPT ![i].pc = "open_folder"]
  /\ UNCHANGED <<flow, repo, tracker, disk, workspace>>

\* line 1325: vscode.openFolder on the target directory
OpenFolder(i) ==
  /\ run[i].pc = "open_folder"
  /\ log' = log \o Stamped(i, <<Event("command", "vscode.openFolder",
                                       run[i].directory, FALSE)>>)
  /\ run' = [run EXCEPT ![i].pc = IF flow = "startWork" THEN "refresh" ELSE "done"]
  /\ UNCHANGED <<flow, repo, store, tracker, disk, workspace>>

\* lines 1334-1384: what _sendToCopilotWithAttachments shows for an outcome.
\* showTextDocument throws outside the try of line 1346, so its error reaches
\* the caller's catch, which shows it
SendToCopilot(payload, files, outcome) ==
  CASE outcome = "sent" ->
         <<Event("sink", "workbench.action.chat.open", payload, files),
           Msg("info",
               IF files = <<>> THEN SendText.PromptSent
               ELSE SendText.PromptSent \o Runtime.space \o Digits(Len(files))
                      \o SendText.FilesOpened \o FileNames(files))>>
    [] outcome = "chat_failed" ->
         <<Event("fallback", "Copy Prompt", payload, files)>>
    [] outcome = "open_failed" ->
         <<Msg("error", StartWorkText.ErrorPrefix \o Runtime.CannotOpen)>>

\* lines 1308 and 1334-1384, with the catch of lines 1327-1331 around it
SendToCopilotWithAttachments(i) ==
  /\ run[i].pc = "send"
  /\ \E outcome \in SendOutcomes(run[i].attachmentFiles) :
       log' = log \o Stamped(i, SendToCopilot(ContextWithInstructions(run[i].context),
                                                run[i].attachmentFiles, outcome))
  /\ run' = [run EXCEPT ![i].pc = IF flow = "startWork" THEN "refresh" ELSE "done"]
  /\ UNCHANGED <<flow, repo, store, tracker, disk, workspace>>

-----------------------------------------------------------------------------
(* _fetchJiraIssues with _getJiraProjects and _callJiraAPI, as steps       *)

\* lines 223-234; line 625 calls it at the end of start work
FetchJiraIssues(i) ==
  /\ run[i].pc = "refresh"
  /\ LET o == FetchJiraIssuesStarted(store.jiraConfig)
     IN /\ log' = log \o Stamped(i, o.evs)
        /\ run' = [run EXCEPT ![i].pc = o.pc]
  /\ UNCHANGED <<flow, repo, store, tracker, disk, workspace>>

\* lines 237-263: the answer to the projects request
GetJiraProjects(i) ==
  /\ run[i].pc = "r_projects"
  /\ \E resp \in Answers("projects") :
       LET o == ProjectsListed(resp)
       IN /\ log' = log \o Stamped(i, o.evs)
          /\ run' = [run EXCEPT ![i].pc = o.pc, ![i].projects = o.projects,
                                ![i].last = [step |-> "projects", resp |-> resp]]
  /\ UNCHANGED <<flow, repo, store, tracker, disk, workspace>>

\* lines 353-367: the answer to the boards request
CallJiraBoards(i) ==
  /\ run[i].pc = "s_boards"
  /\ \E resp \in Answers("boards") :
       LET o == BoardsListed(resp)
       IN /\ log' = log \o Stamped(i, o.evs)
          /\ run' = [run EXCEPT ![i].pc = o.pc, ![i].boardId = o.boardId,
                                ![i].last = [step |-> "boards", resp |-> resp]]
  /\ UNCHANGED <<flow, repo, store, tracker, disk, workspace>>

\* lines 368-398: the answer to the request for the issues of the first board
CallJiraBoardIssues(i) ==
  /\ run[i].pc = "s_board_issues"
  /\ \E resp \in Answers("board issues") :
       LET o == BoardIssuesListed(resp, run[i].boardId, run[i].projects)
       IN /\ log' = log \o Stamped(i, o.evs)
          /\ run' = [run EXCEPT ![i].pc = o.pc,
                                ![i].last = [step |-> "board_issues", resp |-> resp]]
  /\ UNCHANGED <<flow, repo, store, tracker, disk, workspace>>

\* lines 400-436: the answer to the JQL search
CallJiraSearch(i) ==
  /\ run[i].pc = "s_jql"
  /\ \E resp \in Answers("jql") :
       /\ log' = log \o Stamped(i, JqlSearched(resp, run[i].projects))
       /\ run' = [run EXCEPT ![i].pc = "done",
                             ![i].last = [step |-> "jql", resp |-> resp]]
  /\ UNCHANGED <<flow, repo, store, tracker, disk, workspace>>

-----------------------------------------------------------------------------
(* _createUnitTests (lines 438-476), _stageGitChanges (478-490),           *)
(* _getGitChangeset (492-515) and _buildUnitTestPrompt (517-586)           *)

\* a staging whose failure is swallowed
StageGitChangesSwallowed(g) ==
  Caught(ExecSync(g, "add", <<>>))

\* lines 478-490: `git add .`; a failure is rethrown with a fixed message
StageGitChanges(g) ==
  LET added == ExecSync(g, "add", <<>>)
  IN IF added.thrown THEN [added EXCEPT !.err = TestsText.FailedStage] ELSE added

\* a capture that looks at the index only
GetGitChangesetStagedOnly(g) ==
  LET diff == ExecSync(g, "diff_cached", <<>>)
  IN IF diff.thrown THEN [Caught(diff) EXCEPT !.out = <<>>] ELSE diff

\* a capture that goes on to the unstaged diff when the staged diff fails
GetGitChangesetPastFailure(g) ==
  LET diff == ExecSync(g, "diff_cached", <<>>)
      unstagedDiff == ExecSync(Caught(diff), "diff", <<>>)
  IN IF diff.thrown \/ Trim(diff.out) = <<>>
       THEN IF unstagedDiff.thrown THEN [Caught(unstagedDiff) EXCEPT !.out = <<>>]
            ELSE unstagedDiff
     ELSE diff

\* lines 492-515: the staged diff, else the unstaged diff, else ''; the catch
\* of line 511 turns a failing command into ''.  The changeset is g.out
GetGitChangeset(g) ==
  LET diff == ExecSync(g, "diff_cached", <<>>)
      unstagedDiff == ExecSync(diff, "diff", <<>>)
      empty(h) == [Caught(h) EXCEPT !.out = <<>>]
  IN IF diff.thrown THEN empty(diff)
     ELSE IF Trim(diff.out) = <<>>
       THEN IF unstagedDiff.thrown \/ Trim(unstagedDiff.out) = <<>>
              THEN empty(unstagedDiff)
              ELSE unstagedDiff
     ELSE diff

\* a flow that takes every changeset for a change
NoChangesNever(changeset) ==
  FALSE

\* line 457: !changeset || changeset.trim().length === 0
NoChangesDetected(changeset) ==
  Trim(changeset) = <<>>

\* lines 517-586: the prompt, as the pieces of its template
BuildUnitTestPrompt(issueKey, changeset) ==
  <<Line("unit_test_prompt", issueKey), Line("changeset", changeset),
    Line("action_items", <<>>)>>

\* the files of the working tree that may differ
Files ==
  {"a.ts", "b.ts"}

\* what the environment may do to the git commands of the flow
TestEnvs ==
  [fail : {"none", "add", "diff_cached", "diff"}, pullFails : {FALSE}]

\* lines 438-452: the configuration check and the staging
CreateUnitTests(i) ==
  /\ flow = "createUnitTests"
  /\ run[i].pc = "idle"
  /\ LET call == Event("call", "_createUnitTests", run[i].issueKey, FALSE)
     IN IF store.jiraConfig = NoConfig
          THEN /\ log' = log \o Stamped(i, <<call, Msg("warn", StartWorkText.JiraNotConfigured)>>)
               /\ run' = [run EXCEPT ![i].pc = "done"]
               /\ repo' = repo
          ELSE \E genv \in TestEnvs :
                 LET g == StageGitChanges(GitStart(repo, genv))
                 IN /\ repo' = g.repo
                    /\ log' = log \o Stamped(i, <<call>> \o g.evs
                                 \o (IF g.thrown
                                       THEN <<Msg("error", StartWorkText.ErrorPrefix \o g.err)>>
                                       ELSE <<>>))
                    /\ run' = [run EXCEPT ![i].pc = IF g.thrown THEN "done"
                                                    ELSE "changeset"]
  /\ UNCHANGED <<flow, store, tracker, disk, workspace>>

\* the user saves a file while the flow waits between `git add .` and the
\* diff (the `await import` of line 494)
EditFile(i) ==
  /\ run[i].pc = "changeset"
  /\ \E f \in Files \ repo.unstaged :
       repo' = [repo EXCEPT !.unstaged = @ \cup {f}]
  /\ UNCHANGED <<flow, run, log, store, tracker, disk, workspace>>

\* lines 455-463: the changeset is captured; an empty one ends the flow with
\* a warning, any other becomes the prompt
GetGitChangesetStep(i) ==
  /\ run[i].pc = "changeset"
  /\ \E genv \in TestEnvs :
       LET g == GetGitChangeset(GitStart(repo, genv))
           changeset == g.out
           returned == Event("return", "_getGitChangeset", changeset, FALSE)
       IN IF NoChangesDetected(changeset)
            THEN /\ log' = log \o Stamped(i, g.evs \o <<returned,
                                              Msg("warn", TestsText.NoChanges)>>)
                 /\ run' = [run EXCEPT ![i].pc = "done"]
            ELSE /\ log' = log \o Stamped(i, g.evs \o <<returned>>)
                 /\ run' = [run EXCEPT ![i].pc = "unit_send",
                              ![i].context = BuildUnitTestPrompt(run[i].issueKey, changeset)]
  /\ UNCHANGED <<flow, repo, store, tracker, disk, workspace>>

\* lines 465-471: the prompt goes to the chat, then the next step is announced
SendUnitTestPrompt(i) ==
  /\ run[i].pc = "unit_send"
  /\ \E outcome \in SendOutcomes(<<>>) :
       log' = log \o Stamped(i, SendToCopilot(run[i].context, <<>>, outcome)
                                  \o <<Msg("info", TestsText.UnitTestSent)>>)
  /\ run' = [run EXCEPT ![i].pc = "done"]
  /\ UNCHANGED <<flow, repo, store, tracker, disk, workspace>>
-----------------------------------------------------------------------------
(* _fetchFullIssueDetails (lines 1010-1176): the document with attachment  *)
(* contents inlined                                                        *)

\* a classification that takes every attachment for a text file
ClassifyAllText(att) ==
  [isTextFile |-> TRUE, isImage |-> FALSE, isDocument |-> FALSE,
   maxSize |-> 5 * 1024 * 1024]

\* lines 1100-1117: isTextFile, isImage, isDocument and maxSize of one
\* attachment
Classify(att) ==
  LET startsWith(s, t) == Len(s) >= Len(t) /\ SubSeq(s, 1, Len(t)) = t
      endsWith(s, t) == Len(s) >= Len(t) /\ SubSeq(s, Len(s) - Len(t) + 1, Len(s)) = t
      isTextFile ==
        \/ \E m \in {InlineText.text_, InlineText.application_json,
                     InlineText.application_yaml, InlineText.application_yml} :
             Includes(att.mimeType, m)
        \/ \E e \in {InlineText.md, InlineText.txt, InlineText.json, InlineText.yaml,
                     InlineText.yml, InlineText.xml} :
             endsWith(att.filename, e)
  IN [isTextFile |-> isTextFile,
      isImage |-> startsWith(att.mimeType, InlineText.image_),
      isDocument |-> \E m \in {InlineText.application_pdf, InlineText.application_msword,
                               InlineText.application_vnd} :
                       Includes(att.mimeType, m),
      maxSize |-> IF isTextFile THEN 5 * 1024 * 1024 ELSE 2 * 1024 * 1024]

\* lines 1094-1150, from the head of the loop at attachment `index` up to the
\* next `await fetch`; after the last attachment lines 1153-1175 are appended
RECURSIVE InlineLoop(_, _, _)
InlineLoop(issue, index, context) ==
  IF index > Len(issue.attachment)
    THEN [pc |-> "done", attIndex |-> 0, context |-> context \o ContextTail(issue, <<>>)]
  ELSE LET att == issue.attachment[index]
           c == Classify(att)
           head == <<Line("attachment", att.filename),
                     Line("size_kb", Digits(RoundDiv(att.size, 1024))),
                     Line("type", att.mimeType), Line("url", att.content)>>
       IN IF (c.isTextFile \/ c.isImage \/ c.isDocument) /\ att.size < c.maxSize
            THEN [pc |-> "inline_download", attIndex |-> index, context |-> context \o head]
          ELSE InlineLoop(issue, index + 1,
                          context \o head
                            \o (IF att.size >= c.maxSize
                                  THEN <<Line("too_large",
                                              Digits(RoundDiv(att.size, 1024 * 1024)))>>
                                  ELSE <<>>)
                            \o <<Line("attachment_end", att.filename)>>)

\* lines 1022-1119: the issue request and the document up to the first
\* attachment request; what is thrown leaves _fetchFullIssueDetails
FetchFullIssueDetails(i) ==
  /\ flow = "fetchFullIssueDetails"
  /\ run[i].pc = "inline"
  /\ \E resp \in IssueResponses(run[i].issueKey) :
       LET name == "_fetchFullIssueDetails"
           req == HttpEvent("GET issue", run[i].issueKey, resp)
           thrown(errorMsg) ==
             /\ log' = log \o Stamped(i, <<req, Event("throw", name, errorMsg, FALSE)>>)
             /\ run' = [run EXCEPT ![i].pc = "done"]
           issue == resp.body
           from(head) ==
             IF issue.attachment = <<>>
               THEN [pc |-> "done", attIndex |-> 0,
                     context |-> head \o ContextTail(issue, <<>>)]
               ELSE InlineLoop(issue, 1,
                               Append(head, Line("attachments", Digits(Len(issue.attachment)))))
           step(next) ==
             /\ log' = log \o Stamped(i, <<req>> \o
                           (IF next.pc = "done"
                              THEN <<Event("return", name, next.context, FALSE)>>
                              ELSE <<>>))
             /\ run' = [run EXCEPT ![i].pc = next.pc, ![i].issue = issue,
                                   ![i].attIndex = next.attIndex,
                                   ![i].context = next.context]
           build(thrownHead) ==
             IF thrownHead.threw THEN thrown(thrownHead.text)
             ELSE step(from(ContextHead(issue)))
       IN IF resp.threw THEN thrown(NetworkError)
          ELSE IF ~Ok(resp)
            THEN thrown(ContextText.FailedFetchIssue \o run[i].issueKey \o Runtime.colon_space
                          \o Digits(resp.status) \o Runtime.space \o StatusText(resp.status))
          ELSE IF issue.malformed THEN thrown(Runtime.TypeError)
          ELSE build(HeadThrown(issue))
  /\ UNCHANGED <<flow, repo, store, tracker, disk, workspace>>

\* lines 1121-1149: the answer to one attachment request, and the loop up to
\* the next request or to the return.  A fetch or a text() that throws ends in
\* the catch of line 1142; a non-2xx answer adds nothing
InlineAttachment(i) ==
  /\ run[i].pc = "inline_download"
  /\ \E resp \in Answers("inline attachment") :
       LET r == run[i]
           att == r.issue.attachment[r.attIndex]
           c == Classify(att)
           lines == IF resp.threw \/ (Ok(resp) /\ c.isTextFile /\ resp.body.malformed)
                      THEN <<Line("could_not_download", att.filename)>>
                    ELSE IF ~Ok(resp) THEN <<>>
                    ELSE IF c.isTextFile THEN <<Line("content", resp.body.text)>>
                    ELSE IF c.isImage THEN <<Line("image_note", att.filename)>>
                    ELSE IF c.isDocument THEN <<Line("document_note", att.filename)>>
                    ELSE <<>>
           next == InlineLoop(r.issue, r.attIndex + 1,
                              r.context \o lines \o <<Line("attachment_end", att.filename)>>)
       IN /\ log' = log \o Stamped(i, <<HttpEvent("GET attachment", att.content, resp)>> \o
                             (IF next.pc = "done"
                                THEN <<Event("return", "_fetchFullIssueDetails",
                                             next.context, FALSE)>>
                                ELSE <<>>))
          /\ run' = [run EXCEPT ![i].pc = next.pc, ![i].attIndex = next.attIndex,
                                ![i].context = next.context]
  /\ UNCHANGED <<flow, repo, store, tracker, disk, workspace>>
-----------------------------------------------------------------------------
(* activate (lines 1823-1916) and the callback of its timer                *)

\* an activation that leaves the stored prompt and attachments in place
KeepPending(s) ==
  s

\* lines 1833-1843: both settings are updated to undefined
ClearPending(s) ==
  [s EXCEPT !.pendingPrompt = <<>>, !.pendingAttachments = <<>>]

\* an activation that registers nothing
NoRegistrations ==
  <<>>

\* lines 1890-1915: the view provider and the command are registered after
\* the if of line 1831, whichever branch it took
Registrations ==
  <<Event("register", "copilotContextView", <<>>, FALSE),
    Event("register", "copilot-context-executor.executePrompt", <<>>, FALSE)>>

\* lines 1823-1916: an extension host starts while no handler runs: activate
\* reads the pending prompt and attachments, clears them and sets the timer
\* when there is a prompt, and registers the view provider and the command
Activate(i) ==
  /\ run[i].pc = "boot"
  /\ \A j \in DOMAIN run : run[j].pc \in {"boot", "timer", "done"}
  /\ LET pendingPrompt == store.pendingPrompt
         pendingAttachments == store.pendingAttachments
         registered == Registrations
     IN IF pendingPrompt # <<>>
          THEN /\ store' = ClearPending(store)
               /\ run' = [run EXCEPT ![i].pc = "timer", ![i].context = pendingPrompt,
                                     ![i].attachmentFiles = pendingAttachments]
               /\ log' = log \o Stamped(i, <<Event("call", "activate", pendingPrompt,
                                                   pendingAttachments),
                                             Event("store", "pendingPrompt", <<>>, FALSE),
                                             Event("store", "pendingAttachments", <<>>, FALSE)>>
                                             \o registered)
          ELSE /\ store' = store
               /\ run' = [run EXCEPT ![i].pc = "done"]
               /\ log' = log \o Stamped(i, <<Event("call", "activate", <<>>, <<>>)>>
                                             \o registered)
  /\ UNCHANGED <<flow, repo, tracker, disk, workspace>>

\* lines 1846-1886: the callback of the timer.  Everything that throws, a
\* showTextDocument or a chat command, ends in the catch, which offers the
\* prompt for copying
ActivateTimer(i) ==
  /\ run[i].pc = "timer"
  /\ \E outcome \in SendOutcomes(run[i].attachmentFiles) :
       LET files == run[i].attachmentFiles
       IN log' = log \o Stamped(i,
            IF outcome = "sent"
              THEN <<Event("sink", "workbench.action.chat.open", run[i].context, files),
                     Msg("info",
                         IF files = <<>> THEN ActivateText.PromptSent
                         ELSE ActivateText.PromptSent \o ActivateText.open_paren
                                \o Digits(Len(files)) \o ActivateText.FilesOpened
                                \o FileNames(files) \o ActivateText.Analyze)>>
              ELSE <<Event("fallback", "Copy Prompt", run[i].context, files)>>)
  /\ run' = [run EXCEPT ![i].pc = "done"]
  /\ UNCHANGED <<flow, repo, store, tracker, disk, workspace>>
-----------------------------------------------------------------------------
(* _configureJira (lines 107-221), as steps.  An object is a function from *)
(* its property names to their values, and <<>> is the object without     *)
(* properties as well as undefined where an object is expected; where a   *)
(* text is expected undefined is <<"undefined">>, which no input is.      *)

\* lines 107-115: the stored partial configuration is read (`|| {}`) and the
\* quick pick is shown; an invocation starts when the one before it is over
ConfigureJira(i) ==
  /\ flow = "configureJira"
  /\ run[i].pc = "idle"
  /\ \A j \in DOMAIN run : j < i => run[j].pc = "done"
  /\ log' = log \o Stamped(i, <<Event("call", "_configureJira", <<>>, FALSE),
                                Event("ask", "showQuickPick", <<>>, <<>>)>>)
  /\ run' = [run EXCEPT ![i].pc = "c_type", ![i].partialConfig = store.jiraPartialConfig]
  /\ UNCHANGED <<flow, repo, store, tracker, disk, workspace>>

\* a quick pick whose cancelling forgets the saved configuration
ConfigureTypeResetting(i) ==
  /\ run[i].pc = "c_type"
  /\ store' = [store EXCEPT !.jiraConfig = NoConfig]
  /\ run' = [run EXCEPT ![i].pc = "done"]
  /\ UNCHANGED <<flow, repo, log, tracker, disk, workspace>>

\* lines 117-137: the answer to the quick pick; the URL box is shown with the
\* URL of the partial configuration
ConfigureType(i) ==
  /\ run[i].pc = "c_type"
  /\ \E jiraType \in {<<"undefined">>, ConfigureText.Cloud, ConfigureText.DataCenter} :
       LET partialConfig == ("type" :> ToLower(jiraType)) @@ run[i].partialConfig
           value == IF "url" \in DOMAIN partialConfig THEN partialConfig.url ELSE <<>>
       IN IF jiraType = <<"undefined">>
            THEN /\ run' = [run EXCEPT ![i].pc = "done"]
                 /\ UNCHANGED <<log, store>>
            ELSE /\ store' = [store EXCEPT !.jiraPartialConfig = partialConfig]
                 /\ log' = log \o Stamped(i, <<Event("store", "jiraPartialConfig",
                                                     partialConfig, FALSE),
                                               Event("ask", "showInputBox", "url", value)>>)
                 /\ run' = [run EXCEPT ![i].pc = "c_url",
                                       ![i].partialConfig = partialConfig]
  /\ UNCHANGED <<flow, repo, tracker, disk, workspace>>

\* lines 131-190: the answer to the URL box, which validateInput lets through
\* only when it starts with http:// or https://; the box of step 3 is shown
\* with the email or the username of the partial configuration
ConfigureUrl(i) ==
  /\ run[i].pc = "c_url"
  /\ \E url \in {<<"undefined">>, <<>>, Input.jira_local, Input.http_url, Input.base_url} :
       LET starts(prefix) == Len(url) >= Len(prefix) /\ SubSeq(url, 1, Len(prefix)) = prefix
           partialConfig == ("url" :> url) @@ run[i].partialConfig
           third == IF partialConfig.type = ConfigureText.cloud THEN "email" ELSE "username"
           value == IF third \in DOMAIN partialConfig THEN partialConfig[third] ELSE <<>>
       IN /\ url = <<"undefined">> \/ starts(ConfigureText.http) \/ starts(ConfigureText.https)
          /\ IF url = <<"undefined">>
               THEN /\ run' = [run EXCEPT ![i].pc = "done"]
                    /\ UNCHANGED <<log, store>>
               ELSE /\ store' = [store EXCEPT !.jiraPartialConfig = partialConfig]
                    /\ log' = log \o Stamped(i, <<Event("store", "jiraPartialConfig",
                                                        partialConfig, FALSE),
                                                  Event("ask", "showInputBox", third, value)>>)
                    /\ run' = [run EXCEPT ![i].pc = "c_user",
                                          ![i].partialConfig = partialConfig]
  /\ UNCHANGED <<flow, repo, tracker, disk, workspace>>

\* lines 157-170 and 185-198: the answer to the email or the username box;
\* the box of step 4 is shown with partialConfig.apiToken or
\* partialConfig.password
ConfigureUser(i) ==
  /\ run[i].pc = "c_user"
  /\ \E answer \in {<<"undefined">>, <<>>, Input.email, Input.username} :
       LET third == IF run[i].partialConfig.type = ConfigureText.cloud
                      THEN "email" ELSE "username"
           fourth == IF third = "email" THEN "apiToken" ELSE "password"
           partialConfig == (third :> answer) @@ run[i].partialConfig
           value == IF fourth \in DOMAIN partialConfig THEN partialConfig[fourth] ELSE <<>>
       IN IF answer \in {<<"undefined">>, <<>>}
            THEN /\ run' = [run EXCEPT ![i].pc = "done"]
                 /\ UNCHANGED <<log, store>>
            ELSE /\ store' = [store EXCEPT !.jiraPartialConfig = partialConfig]
                 /\ log' = log \o Stamped(i, <<Event("store", "jiraPartialConfig",
                                                     partialConfig, FALSE),
                                               Event("ask", "showInputBox", fourth, value)>>)
                 /\ run' = [run EXCEPT ![i].pc = "c_secret",
                                       ![i].partialConfig = partialConfig]
  /\ UNCHANGED <<flow, repo, tracker, disk, workspace>>

\* a fourth step that keeps its answer in the partial configuration
ConfigureSecretKept(i) ==
  /\ run[i].pc = "c_secret"
  /\ \E answer \in {Input.token, Input.password} :
       LET fourth == IF run[i].partialConfig.type = ConfigureText.cloud
                       THEN "apiToken" ELSE "password"
       IN store' = [store EXCEPT
                      !.jiraPartialConfig = (fourth :> answer) @@ run[i].partialConfig]
  /\ run' = [run EXCEPT ![i].pc = "done"]
  /\ UNCHANGED <<flow, repo, log, tracker, disk, workspace>>

\* lines 172-176 and 200-220: the answer to the API token or the password
\* box; the partial configuration is cleared, the configuration is saved and
\* _fetchJiraIssues is called
ConfigureSecret(i) ==
  /\ run[i].pc = "c_secret"
  /\ \E answer \in {<<"undefined">>, <<>>, Input.token, Input.password} :
       LET p == run[i].partialConfig
           config == IF p.type = ConfigureText.cloud
                       THEN [type |-> p.type, url |-> p.url, email |-> p.email,
                             apiToken |-> answer]
                       ELSE [type |-> p.type, url |-> p.url, username |-> p.username,
                             password |-> answer]
       IN IF answer \in {<<"undefined">>, <<>>}
            THEN /\ run' = [run EXCEPT ![i].pc = "done"]
                 /\ UNCHANGED <<log, store>>
            ELSE /\ store' = [store EXCEPT !.jiraPartialConfig = <<>>,
                                           !.jiraConfig = config]
                 /\ log' = log \o Stamped(i, <<Event("store", "jiraPartialConfig",
                                                     <<>>, FALSE),
                                               Event("store", "jiraConfig", config, FALSE),
                                               Msg("info", ConfigureText.Saved)>>)
                 /\ run' = [run EXCEPT ![i].pc = "refresh"]
  /\ UNCHANGED <<flow, repo, tracker, disk, workspace>>

-----------------------------------------------------------------------------
(* _setupGitBranch as a step of an invocation                              *)

\* a _setupGitBranch that yields to the event loop after its first command
SetupGitBranchStepYielding(i) ==
  /\ run[i].pc = "git"
  /\ IF run[i].last.step # "yielded"
       THEN /\ \E genv \in {[fail |-> "none", pullFails |-> FALSE]} :
                 LET g == SetupGitBranch(repo, run[i].issueKey, run[i].issueType, genv)
                 IN /\ log' = log \o Stamped(i, <<Event("call", "_setupGitBranch", <<>>, FALSE),
                                                   Head(g.evs)>>)
                    /\ run' = [run EXCEPT ![i].last = [step |-> "yielded", genv |-> genv,
                                                       before |-> repo, g |-> g]]
            /\ repo' = repo
       ELSE LET y == run[i].last
            IN /\ repo' = y.g.repo
               /\ log' = log \o Stamped(i, Tail(y.g.evs))
               /\ run' = [run EXCEPT
                            ![i].pc = IF flow = "startWork" THEN "handoff" ELSE "git_done",
                            ![i].last = [step |-> "none"],
                            ![i].gitRuns = Append(@, [genv |-> y.genv, before |-> y.before,
                                                      after |-> y.g.repo, evs |-> y.g.evs])]
  /\ UNCHANGED <<flow, store, tracker, disk, workspace>>

\* a _setupGitBranch that leaves the directory alone once another invocation
\* has set up its branch there
SetupGitBranchStepFirstWins(i) ==
  /\ run[i].pc = "git"
  /\ \E genv \in GitEnvs :
       LET taken == \E j \in DOMAIN run : j # i /\ run[j].gitRuns # <<>>
           g == SetupGitBranch(repo, run[i].issueKey, run[i].issueType, genv)
           after == IF taken THEN repo ELSE g.repo
       IN /\ repo' = after
          /\ log' = log \o Stamped(i, <<Event("call", "_setupGitBranch", <<>>, FALSE)>>
                                        \o (IF taken THEN <<>> ELSE g.evs))
          /\ run' = [run EXCEPT
                       ![i].pc = IF flow = "startWork" THEN "handoff" ELSE "git_done",
                       ![i].gitRuns = Append(@, [genv |-> genv, before |-> repo,
                                                 after |-> after, evs |-> g.evs])]
  /\ UNCHANGED <<flow, store, tracker, disk, workspace>>

\* line 619 / lines 675-742: the whole of _setupGitBranch, after its
\* `await import('node:child_process')`
SetupGitBranchStep(i) ==
  /\ run[i].pc = "git"
  /\ \E genv \in GitEnvs :
       LET g == SetupGitBranch(repo, run[i].issueKey, run[i].issueType, genv)
       IN /\ repo' = g.repo
          /\ log' = log \o Stamped(i, <<Event("call", "_setupGitBranch", <<>>, FALSE)>>
                                        \o g.evs)
          /\ run' = [run EXCEPT
                       ![i].pc = IF flow = "startWork" THEN "handoff" ELSE "git_done",
                       ![i].gitRuns = Append(@, [genv |-> genv, before |-> repo,
                                                 after |-> g.repo, evs |-> g.evs])]
  /\ UNCHANGED <<flow, store, tracker, disk, workspace>>

\* the same directory, issue key and issue type are submitted a second time
SetupGitBranchAgain(i) ==
  /\ flow = "setupGitBranch"
  /\ run[i].pc = "git_done"
  /\ Len(run[i].gitRuns) < 2
  /\ run' = [run EXCEPT ![i].pc = "git"]
  /\ UNCHANGED <<flow, repo, log, store, tracker, disk, workspace>>

-----------------------------------------------------------------------------
(* Initial states                                                          *)

Repo(branches, current) ==
  [isRepo |-> TRUE, born |-> TRUE, branches |-> branches, current |-> current,
   dirty |-> FALSE, staged |-> {}, unstaged |-> {}]

StartRepos ==
  {NonRepo, EmptyDir, Repo({Input.dev}, Input.dev), Repo({GitText.main, Input.dev, Input.feature_proj7}, Input.dev)}

\* the settings after a cloud configuration was saved
Configured ==
  [EmptyStore EXCEPT !.jiraConfig = [type |-> "cloud", url |-> Input.base_url]]

\* the state the extension is in when a message of the side bar arrives
Idle(f, pc) ==
  /\ flow = f
  /\ run = (1 :> [NewRun EXCEPT !.pc = pc, !.issueKey = Input.PROJ7, !.directory = DirA])
  /\ log = <<>>
  /\ tracker = {}
  /\ disk = {}

\* start work on PROJ-7 from every start repository, or on PROJ-8, the issue
\* with two attachments to download, in a repository on branch dev
Init ==
  \/ /\ Idle("startWork", "idle")
     /\ repo \in StartRepos
     /\ store \in {EmptyStore, Configured}
     /\ workspace \in {DirA, DirB}
  \/ /\ flow = "startWork"
     /\ run = (1 :> [NewRun EXCEPT !.pc = "idle", !.issueKey = Input.PROJ8,
                                   !.directory = DirA])
     /\ log = <<>> /\ tracker = {} /\ disk = {}
     /\ repo = Repo({Input.dev}, Input.dev)
     /\ store = Configured
     /\ workspace = DirA

Next ==
  \/ \E i \in DOMAIN run : StartWorkOnIssue(i)
  \/ \E i \in DOMAIN run : TransitionsList(i)
  \/ \E i \in DOMAIN run : TransitionStatus(i)
  \/ \E i \in DOMAIN run : TransitionPost(i)
  \/ \E i \in DOMAIN run : FetchIssue(i)
  \/ \E i \in DOMAIN run : DownloadAttachment(i)
  \/ \E i \in DOMAIN run : GetIssueTypeStep(i)
  \/ \E i \in DOMAIN run : SetupGitBranchStep(i)
  \/ \E i \in DOMAIN run : ExecuteWithContextAndFiles(i)
  \/ \E i \in DOMAIN run : StorePendingAttachments(i)
  \/ \E i \in DOMAIN run : OpenFolder(i)
  \/ \E i \in DOMAIN run : SendToCopilotWithAttachments(i)
  \/ \E i \in DOMAIN run : FetchJiraIssues(i)
  \/ \E i \in DOMAIN run : GetJiraProjects(i)
  \/ \E i \in DOMAIN run : CallJiraBoards(i)
  \/ \E i \in DOMAIN run : CallJiraBoardIssues(i)
  \/ \E i \in DOMAIN run : CallJiraSearch(i)

\* start work, one invocation
Spec ==
  Init /\ [][Next]_vars

\* the target directory when _setupGitBranch starts: not a repository, or one
\* with commits, on one of its branches, which are drawn from main, dev,
\* maintenance and the issue branch
InitGit ==
  /\ flow = "setupGitBranch"
  /\ \E t \in {"bug", "feature"} :
       LET pool == {GitText.main, Input.dev, Input.maintenance,
                    BranchName(Input.PROJ7, t)}
       IN /\ run = (1 :> [NewRun EXCEPT !.pc = "git", !.issueKey = Input.PROJ7,
                                        !.directory = DirA, !.issueType = t])
          /\ repo \in {NonRepo, EmptyDir} \cup
                      {r \in {Repo(bs, cur) : bs \in SUBSET pool \ {{}}, cur \in pool} :
                         r.current \in r.branches}
  /\ log = <<>>
  /\ store = Configured
  /\ tracker = {}
  /\ disk = {}
  /\ workspace = DirA

NextGit ==
  \/ \E i \in DOMAIN run : SetupGitBranchStep(i)
  \/ \E i \in DOMAIN run : SetupGitBranchAgain(i)

\* _setupGitBranch, run twice on one directory
SpecGit ==
  InitGit /\ [][NextGit]_vars

InitSearch ==
  /\ Idle("fetchJiraIssues", "refresh")
  /\ repo = NonRepo
  /\ store \in {EmptyStore, Configured}
  /\ workspace = DirA

NextSearch ==
  \/ \E i \in DOMAIN run : FetchJiraIssues(i)
  \/ \E i \in DOMAIN run : GetJiraProjects(i)
  \/ \E i \in DOMAIN run : CallJiraBoards(i)
  \/ \E i \in DOMAIN run : CallJiraBoardIssues(i)
  \/ \E i \in DOMAIN run : CallJiraSearch(i)

\* the issue-list refresh alone
SpecSearch ==
  InitSearch /\ [][NextSearch]_vars

InitFetch ==
  /\ Idle("fetchIssue", "fetch")
  /\ repo = NonRepo
  /\ store = Configured
  /\ workspace \in {NoWorkspace, DirA, DirB}

NextFetch ==
  \/ \E i \in DOMAIN run : FetchIssue(i)
  \/ \E i \in DOMAIN run : DownloadAttachment(i)

\* _fetchFullIssueDetailsWithAttachments alone
SpecFetch ==
  InitFetch /\ [][NextFetch]_vars

InitType ==
  /\ Idle("getIssueType", "classify")
  /\ repo \in StartRepos
  /\ store = Configured
  /\ workspace = DirA

NextType ==
  \/ \E i \in DOMAIN run : GetIssueTypeStep(i)
  \/ \E i \in DOMAIN run : SetupGitBranchStep(i)

\* _getIssueType followed by _setupGitBranch
SpecType ==
  InitType /\ [][NextType]_vars

InitTests ==
  /\ Idle("createUnitTests", "idle")
  /\ repo \in {NonRepo} \cup
              {[Repo({GitText.main}, GitText.main) EXCEPT !.staged = s, !.unstaged = u] :
                 s \in SUBSET Files, u \in SUBSET Files}
  /\ store \in {EmptyStore, Configured}
  /\ workspace = DirA

NextTests ==
  \/ \E i \in DOMAIN run : CreateUnitTests(i)
  \/ \E i \in DOMAIN run : EditFile(i)
  \/ \E i \in DOMAIN run : GetGitChangesetStep(i)
  \/ \E i \in DOMAIN run : SendUnitTestPrompt(i)

\* create unit tests, one invocation
SpecTests ==
  InitTests /\ [][NextTests]_vars

\* _transitionIssueToInProgress(config, issueKey) on its own
InitTransition ==
  /\ flow = "transitionIssue"
  /\ \E key \in {Input.PROJ7, Input.PROJ8} :
       run = (1 :> [NewRun EXCEPT !.pc = "t_list", !.issueKey = key, !.directory = DirA])
  /\ repo = NonRepo
  /\ log = <<>>
  /\ store = Configured
  /\ tracker = {}
  /\ disk = {}
  /\ workspace = DirA

NextTransition ==
  \/ \E i \in DOMAIN run : TransitionsList(i)
  \/ \E i \in DOMAIN run : TransitionStatus(i)
  \/ \E i \in DOMAIN run : TransitionPost(i)

SpecTransition ==
  InitTransition /\ [][NextTransition]_vars

\* the largest number of top-level nodes of a document
MaxNodes == 2

\* the documents rendered: the missing document, documents whose content is
\* absent or no list, and every list of at most MaxNodes top-level nodes drawn
\* from well-formed text, paragraph and heading nodes, the other node types,
\* and malformed nodes (null, untyped, content that is no list, a text node
\* without text, a negative heading level)
InitRender ==
  /\ flow = "extractText"
  /\ \E adf \in
        LET absent == [js |-> "absent"]
            list(items) == [js |-> "array", items |-> items]
            node(type, content) ==
              [js |-> "object", type |-> type, hasText |-> FALSE, text |-> <<>>,
               level |-> 0, url |-> <<>>, content |-> content]
            text(t) == [node("text", absent) EXCEPT !.hasText = TRUE, !.text = t]
            heading(level, content) == [node("heading", content) EXCEPT !.level = level]
            null == [js |-> "null"]
            a == text(Input.frag_a)
            b == text(Input.frag_b)
            c == text(Input.frag_c)
            wellFormed ==
              {a, b, c,
               node("paragraph", list(<<a>>)), node("paragraph", list(<<c, b>>)),
               node("paragraph", list(<<>>)),
               heading(2, list(<<a>>)), heading(1, list(<<c>>)), heading(3, list(<<b, a>>))}
            otherTypes ==
              {node("hardBreak", absent),
               node("bulletList", list(<<node("listItem", list(<<node("paragraph", list(<<a>>))>>)),
                                         node("listItem", list(<<b>>))>>)),
               node("orderedList", list(<<node("listItem", list(<<c>>))>>)),
               node("codeBlock", list(<<a>>)), node("codeBlock", absent),
               [node("inlineCard", absent) EXCEPT !.url = Input.card_url],
               node("blockCard", absent),
               node("panel", list(<<node("paragraph", list(<<a>>))>>))}
            malformed ==
              {null, node("", absent), node("", list(<<a>>)),
               node("paragraph", absent), heading(0, absent), heading(0, list(<<a>>)),
               node("paragraph", [js |-> "string"]), node("paragraph", list(<<null, a>>)),
               node("paragraph", list(<<node("", absent), a>>)),
               node("text", absent), heading(-1, list(<<a>>)),
               node("bulletList", absent), node("listItem", absent)}
            nodes == wellFormed \cup otherTypes \cup malformed
        IN {null, [js |-> "object", content |-> absent],
            [js |-> "object", content |-> [js |-> "string"]]}
           \cup {[js |-> "object", content |-> list(items)] :
                   items \in UNION {[1..n -> nodes] : n \in 0..MaxNodes}} :
       run = (1 :> [NewRun EXCEPT !.pc = "render", !.issueKey = Input.PROJ7,
                                  !.directory = DirA, !.issue = adf])
  /\ log = <<>>
  /\ tracker = {}
  /\ disk = {}
  /\ repo = NonRepo
  /\ store = Configured
  /\ workspace = DirA

NextRender ==
  \/ \E i \in DOMAIN run : ExtractText(i)

\* the renderer applied to one document
SpecRender ==
  InitRender /\ [][NextRender]_vars

InitInline ==
  /\ Idle("fetchFullIssueDetails", "inline")
  /\ repo = NonRepo
  /\ store = Configured
  /\ workspace \in {NoWorkspace, DirA}

NextInline ==
  \/ \E i \in DOMAIN run : FetchFullIssueDetails(i)
  \/ \E i \in DOMAIN run : InlineAttachment(i)

\* _fetchFullIssueDetails alone
SpecInline ==
  InitInline /\ [][NextInline]_vars

\* start work has its document and reaches the hand-off; two extension hosts
\* start later
InitReload ==
  /\ flow = "handoff"
  /\ \E key \in {Input.PROJ7, Input.PROJ8} :
     \E files \in {<<>>, <<PathJoin(JiraContextDir(DirB, key), Input.notes_txt)>>} :
       run = (1 :> [NewRun EXCEPT !.pc = "handoff", !.issueKey = key, !.directory = DirA,
                                  !.context = <<Line("title", key)>>,
                                  !.attachmentFiles = files])
             @@ (2 :> [NewRun EXCEPT !.pc = "boot"])
             @@ (3 :> [NewRun EXCEPT !.pc = "boot"])
  /\ log = <<>>
  /\ tracker = {}
  /\ disk = {}
  /\ repo = NonRepo
  /\ store = Configured
  /\ workspace \in {NoWorkspace, DirA, DirB}

NextReload ==
  \/ \E i \in DOMAIN run : ExecuteWithContextAndFiles(i)
  \/ \E i \in DOMAIN run : StorePendingAttachments(i)
  \/ \E i \in DOMAIN run : OpenFolder(i)
  \/ \E i \in DOMAIN run : SendToCopilotWithAttachments(i)
  \/ \E i \in DOMAIN run : Activate(i)
  \/ \E i \in DOMAIN run : ActivateTimer(i)

\* the hand-off of start work and the activations that follow it
SpecReload ==
  InitReload /\ [][NextReload]_vars

\* the side bar sends configureJira twice, before anything was configured or
\* over a configuration saved earlier
InitConfigure ==
  /\ flow = "configureJira"
  /\ run = [i \in 1..2 |-> NewRun]
  /\ log = <<>>
  /\ tracker = {}
  /\ disk = {}
  /\ repo = NonRepo
  /\ store \in {EmptyStore, Configured}
  /\ workspace = DirA

NextConfigure ==
  \/ \E i \in DOMAIN run : ConfigureJira(i)
  \/ \E i \in DOMAIN run : ConfigureType(i)
  \/ \E i \in DOMAIN run : ConfigureUrl(i)
  \/ \E i \in DOMAIN run : ConfigureUser(i)
  \/ \E i \in DOMAIN run : ConfigureSecret(i)
  \/ \E i \in DOMAIN run : FetchJiraIssues(i)
  \/ \E i \in DOMAIN run : GetJiraProjects(i)
  \/ \E i \in DOMAIN run : CallJiraBoards(i)
  \/ \E i \in DOMAIN run : CallJiraBoardIssues(i)
  \/ \E i \in DOMAIN run : CallJiraSearch(i)

\* the setup flow, twice in succession
SpecConfigure ==
  InitConfigure /\ [][NextConfigure]_vars

-----------------------------------------------------------------------------
(* Two invocations of start work that overlap                              *)

\* the environment of the overlap: the tracker answers the requests of
\* _startWorkOnIssue with 2xx, and no git command fails
Calm ==
  \A i \in DOMAIN run :
    /\ run[i].last.step \in {"transitions", "status", "post", "fetch", "classify"}
       => Ok(run[i].last.resp) /\ ~run[i].last.resp.body.malformed
    /\ \A k \in DOMAIN run[i].gitRuns :
         run[i].gitRuns[k].genv = [fail |-> "none", pullFails |-> FALSE]

\* lines 57-91: the handler of a message is async and nothing holds a second
\* message back while the first is suspended.  Either the start work on PROJ-7
\* waits at the await of line 677 when the message for PROJ-8 on the same
\* directory arrives, or two hand-offs to a directory other than the open
\* workspace wait at line 1300 and an extension host starts after them
InitOverlap ==
  /\ log = <<>>
  /\ tracker = {}
  /\ disk = {}
  /\ store = Configured
  /\ workspace = DirA
  /\ \/ /\ flow = "startWork"
        /\ repo = Repo({Input.dev}, Input.dev)
        /\ run = (1 :> [NewRun EXCEPT !.pc = "git", !.issueKey = Input.PROJ7,
                                      !.directory = DirA, !.issueType = "bug",
                                      !.context = <<Line("title", Input.PROJ7)>>])
                 @@ (2 :> [NewRun EXCEPT !.pc = "idle", !.issueKey = Input.PROJ8,
                                         !.directory = DirA])
     \/ /\ flow = "handoff"
        /\ repo = NonRepo
        /\ LET waiting(key) ==
                 [NewRun EXCEPT !.pc = "handoff", !.issueKey = key, !.directory = DirB,
                                !.context = <<Line("title", key)>>,
                                !.attachmentFiles =
                                  <<PathJoin(JiraContextDir(DirA, key), Input.notes_txt)>>]
           IN run = (1 :> waiting(Input.PROJ7)) @@ (2 :> waiting(Input.PROJ8))
                    @@ (3 :> [NewRun EXCEPT !.pc = "boot"])

NextOverlap ==
  \/ \E i \in DOMAIN run : StartWorkOnIssue(i) /\ Calm'
  \/ \E i \in DOMAIN run : TransitionsList(i) /\ Calm'
  \/ \E i \in DOMAIN run : TransitionStatus(i) /\ Calm'
  \/ \E i \in DOMAIN run : TransitionPost(i) /\ Calm'
  \/ \E i \in DOMAIN run : FetchIssue(i) /\ Calm'
  \/ \E i \in DOMAIN run : DownloadAttachment(i) /\ Calm'
  \/ \E i \in DOMAIN run : GetIssueTypeStep(i) /\ Calm'
  \/ \E i \in DOMAIN run : SetupGitBranchStep(i) /\ Calm'
  \/ \E i \in DOMAIN run : ExecuteWithContextAndFiles(i) /\ Calm'
  \/ \E i \in DOMAIN run : StorePendingAttachments(i) /\ Calm'
  \/ \E i \in DOMAIN run : OpenFolder(i) /\ Calm'
  \/ \E i \in DOMAIN run : SendToCopilotWithAttachments(i) /\ Calm'
  \/ \E i \in DOMAIN run : Activate(i) /\ Calm'
  \/ \E i \in DOMAIN run : ActivateTimer(i) /\ Calm'

\* start work twice on one directory, up to the delivery of the documents
SpecOverlap ==
  InitOverlap /\ [][NextOverlap]_vars
-----------------------------------------------------------------------------
(* Properties                                                              *)

IsMsg(e, level) ==
  e.ev = "msg" /\ e.a = level

IsCall(e, name) ==
  e.ev = "call" /\ e.a = name

IsHttp(e, name) ==
  e.ev = "http" /\ e.a = name

\* an HTTP status of the 2xx class; 0 stands for a fetch that threw
Is2xx(status) ==
  status >= 200 /\ status <= 299

Handoff ==
  "_executeWithContextAndFiles"

DetailFetch ==
  "_fetchFullIssueDetailsWithAttachments"

\* the positions of an invocation from the hand-off call on
PastHandoff ==
  {"send", "store_attachments", "open_folder", "refresh", "r_projects", "s_boards",
   "s_board_issues", "s_jql", "done"}

\* the positions of an invocation from the start of the refresh on
PastRefresh ==
  {"r_projects", "s_boards", "s_board_issues", "s_jql", "done"}

\* the document and the files of invocation i were passed to the hand-off
HandedOff(i) ==
  \E k \in DOMAIN log :
    /\ log[k].inv = i
    /\ IsCall(log[k], Handoff)
    /\ log[k].b = ContextWithInstructions(run[i].context)
    /\ log[k].c = run[i].attachmentFiles

\* the refresh of invocation i was called, after its hand-off
RefreshedAfterHandoff(i) ==
  \E k, m \in DOMAIN log :
    /\ k < m
    /\ log[k].inv = i /\ IsCall(log[k], Handoff)
    /\ log[m].inv = i /\ IsCall(log[m], "_fetchJiraIssues")

\* C1: in start work, when the detail fetch is answered with a non-2xx status,
\* the run ends there: no git command runs, nothing is passed to the hand-off,
\* sent to the chat or stored as pending prompt, the issue list is not refreshed,
\* and exactly one error message is shown, which carries the status.
C1_DetailFetchFailureIsFatal ==
  \A i \in DOMAIN run : \A k \in DOMAIN log :
    (log[k].inv = i /\ IsHttp(log[k], "GET issue")
       /\ log[k].c # 0 /\ ~Is2xx(log[k].c))
    => /\ run[i].pc = "done"
       /\ run[i].gitRuns = <<>>
       /\ \A m \in DOMAIN log :
            /\ log[m].ev \notin {"git", "sink", "fallback", "store", "command"}
            /\ ~IsCall(log[m], "_setupGitBranch")
            /\ ~IsCall(log[m], Handoff)
            /\ ~IsCall(log[m], "_fetchJiraIssues")
       /\ store.pendingPrompt = <<>>
       /\ store.pendingAttachments = <<>>
       /\ Cardinality({m \in DOMAIN log : IsMsg(log[m], "error")}) = 1
       /\ \E m \in DOMAIN log :
            /\ m > k
            /\ IsMsg(log[m], "error")
            /\ Includes(log[m].b, Digits(log[k].c))

\* a run whose transition went through and whose detail fetch was answered 404
C1_Witness ==
  \E k \in DOMAIN log :
    /\ IsHttp(log[k], "GET issue") /\ log[k].c = 404
    /\ tracker # {}
    /\ run[1].pc = "done"

\* the commands of the ensure-main, align and prepare-branch steps
MainAndBranchKinds ==
  {"revparse_head", "branch_list", "branch_main", "checkout_main", "checkout_new"}

\* the command lines of git run gr that exited non-zero in one of those steps.
\* `git checkout <branch>` is the probe of the prepare step: its failure means
\* that the branch is to be created
FailedLines(gr) ==
  {gr.evs[k].b : k \in {j \in DOMAIN gr.evs :
                          /\ gr.evs[j].ev = "git"
                          /\ gr.evs[j].a \in MainAndBranchKinds
                          /\ ~gr.evs[j].c}}

\* C2: in start work, when a git command of the ensure-main, align or
\* prepare-branch step fails, _setupGitBranch shows one warning naming the
\* command and returns; no error is shown for it, the run goes on to the
\* hand-off with its document and attachment paths, and then to the refresh.
C2_GitFailureIsWarning ==
  \A i \in DOMAIN run : \A n \in DOMAIN run[i].gitRuns :
    LET gr == run[i].gitRuns[n]
    IN \A line \in FailedLines(gr) :
         /\ \E k \in DOMAIN gr.evs :
              /\ IsMsg(gr.evs[k], "warn")
              /\ gr.evs[k].b = GitText.GitSetupFailed \o Runtime.CommandFailed \o line
                                 \o GitText.ContinuingWithoutGit
         /\ \A k \in DOMAIN gr.evs : ~IsMsg(gr.evs[k], "error")
         /\ \A k \in DOMAIN log : ~(log[k].ev = "throw" /\ log[k].a = "_setupGitBranch")
         /\ run[i].pc \in {"handoff"} \cup PastHandoff
         /\ run[i].pc \in PastHandoff => HandedOff(i)
         /\ run[i].pc \in PastRefresh => RefreshedAfterHandoff(i)

\* `git checkout main` failed, and the run ended after the chat took the document
C2_Witness ==
  /\ run[1].pc = "done"
  /\ Len(run[1].gitRuns) = 1
  /\ GitText.git_checkout \o GitText.main \in FailedLines(run[1].gitRuns[1])
  /\ \E k \in DOMAIN log : log[k].ev = "sink"
  /\ RefreshedAfterHandoff(1)

TransitionRequests ==
  {"GET transitions", "GET status", "POST transitions"}

\* the detail fetch of invocation i returned a document
DetailFetched(i) ==
  \E k \in DOMAIN log :
    log[k].inv = i /\ log[k].ev = "return" /\ log[k].a = DetailFetch

\* C3: in start work, when a request of the transition step is answered with a
\* non-2xx status or throws, the next thing shown is a warning, no error is
\* shown for it, and the run goes on to the detail fetch; when the detail fetch
\* returns a document, the run reaches the hand-off with that document.
C3_TransitionFailureIsWarning ==
  \A i \in DOMAIN run : \A k \in DOMAIN log :
    (log[k].inv = i /\ log[k].ev = "http" /\ log[k].a \in TransitionRequests
       /\ ~Is2xx(log[k].c))
    => /\ k + 1 \in DOMAIN log
       /\ IsMsg(log[k + 1], "warn")
       /\ run[i].pc \notin {"idle", "t_list", "t_status", "t_post"}
       /\ run[i].pc # "fetch" => \E m \in DOMAIN log : m > k /\ IsHttp(log[m], "GET issue")
       /\ \A m \in DOMAIN log :
            IsMsg(log[m], "error") => \E j \in DOMAIN log : j < m /\ IsHttp(log[j], "GET issue")
       /\ DetailFetched(i) => run[i].pc \in {"classify", "git", "handoff"} \cup PastHandoff
       /\ (DetailFetched(i) /\ run[i].pc \in PastHandoff) => HandedOff(i)

\* the transition POST was answered 500, and the chat took the document
C3_Witness ==
  /\ \E k \in DOMAIN log : IsHttp(log[k], "POST transitions") /\ log[k].c = 500
  /\ \E k \in DOMAIN log : log[k].ev = "sink"
  /\ HandedOff(1)

\* no command of git run gr was made to fail from outside, except maybe the pull
Undisturbed(gr) ==
  gr.genv.fail = "none"

Warned(gr) ==
  \E k \in DOMAIN gr.evs : IsMsg(gr.evs[k], "warn") \/ IsMsg(gr.evs[k], "error")

\* C4: when _setupGitBranch runs twice in succession for the same directory,
\* issue key and issue type, the second run shows no warning, ends on the branch
\* the first run ended on, which is the issue branch, and leaves the set of
\* branches as the first run left it.
C4_SetupGitBranchIdempotent ==
  \A i \in DOMAIN run :
    (Len(run[i].gitRuns) = 2
       /\ Undisturbed(run[i].gitRuns[1]) /\ Undisturbed(run[i].gitRuns[2]))
    => LET first == run[i].gitRuns[1]
           second == run[i].gitRuns[2]
       IN /\ ~Warned(second)
          /\ second.after.current = first.after.current
          /\ second.after.current = BranchName(run[i].issueKey, run[i].issueType)
          /\ second.after.branches = first.after.branches

\* a branch other than main whose name holds the text "main"
MisleadingBranch(r) ==
  \E b \in r.branches : b # GitText.main /\ Includes(b, GitText.main)

\* C4 where it holds: the directory held files or commits, and no branch but
\* main has "main" in its name
C4_IdempotentOnPlainRepos ==
  \A i \in DOMAIN run :
    (Len(run[i].gitRuns) = 2
       /\ Undisturbed(run[i].gitRuns[1]) /\ Undisturbed(run[i].gitRuns[2])
       /\ run[i].gitRuns[1].before # EmptyDir
       /\ ~(GitText.main \notin run[i].gitRuns[1].before.branches
              /\ MisleadingBranch(run[i].gitRuns[1].before)))
    => LET first == run[i].gitRuns[1]
           second == run[i].gitRuns[2]
       IN /\ ~Warned(second)
          /\ second.after.current = first.after.current
          /\ second.after.current = BranchName(run[i].issueKey, run[i].issueType)
          /\ second.after.branches = first.after.branches

\* C5: when the target directory is no repository and the issue is classified
\* feature, _setupGitBranch in start work creates a repository with a first
\* commit, ends with the branches main and feature/proj-7 and on the latter, and
\* shows no warning or error, whether or not the pull fails.
C5_FreshDirectoryGetsFeatureBranch ==
  \A i \in DOMAIN run : \A n \in DOMAIN run[i].gitRuns :
    LET gr == run[i].gitRuns[n]
    IN (~gr.before.isRepo /\ run[i].issueType = "feature" /\ Undisturbed(gr))
       => /\ gr.after.isRepo
          /\ gr.after.born
          /\ gr.after.branches = {GitText.main, Input.feature_proj7}
          /\ gr.after.current = Input.feature_proj7
          /\ ~Warned(gr)

\* C5 where it holds: the directory holds at least one file
C5_DirectoryWithFiles ==
  \A i \in DOMAIN run : \A n \in DOMAIN run[i].gitRuns :
    LET gr == run[i].gitRuns[n]
    IN (gr.before = NonRepo /\ run[i].issueType = "feature" /\ Undisturbed(gr))
       => /\ gr.after.isRepo
          /\ gr.after.born
          /\ gr.after.branches = {GitText.main, Input.feature_proj7}
          /\ gr.after.current = Input.feature_proj7
          /\ ~Warned(gr)

\* the throw of _callJiraAPI in the log, if any
SearchRaised(i) ==
  {k \in DOMAIN log : log[k].inv = i /\ log[k].ev = "throw" /\ log[k].a = "_callJiraAPI"}

\* a 2xx answer whose body is JSON with an `issues` array
HasArray(resp) ==
  Ok(resp) /\ ~resp.body.malformed /\ resp.body.issuesShape = "array"

\* C6: when the first board's issue list is empty, tier (b) is asked, and when
\* tier (b) answers 410 _callJiraAPI throws an error whose message holds "410".
C6_EmptyBoardThenGone ==
  \A i \in DOMAIN run :
    /\ (run[i].last.step = "board_issues" /\ HasArray(run[i].last.resp)
          /\ run[i].last.resp.body.issues = <<>>)
       => run[i].pc = "s_jql"
    /\ (run[i].last.step = "jql" /\ ~run[i].last.resp.threw
          /\ run[i].last.resp.status = 410)
       => \E k \in SearchRaised(i) : Includes(log[k].b, IssuesText.n410)

\* tier (a) did not produce a list from this answer to the boards request
BoardsUnusable(resp) ==
  resp.threw \/ ~Is2xx(resp.status) \/ resp.body.malformed \/ resp.body.values = <<>>

\* tier (a) did not produce a list from this answer to the board-issues request
BoardIssuesUnusable(resp) ==
  \/ resp.threw
  \/ ~Is2xx(resp.status)
  \/ resp.body.malformed
  \/ resp.body.issuesShape # "array"
  \/ \E k \in DOMAIN resp.body.issues : ~resp.body.issues[k].wellFormed

\* tier (a) failures lead to tier (b) and raise nothing
TierAFallsBack(i) ==
  /\ (run[i].last.step = "boards" /\ BoardsUnusable(run[i].last.resp))
     => run[i].pc = "s_jql" /\ SearchRaised(i) = {}
  /\ (run[i].last.step = "board_issues" /\ BoardIssuesUnusable(run[i].last.resp))
     => run[i].pc = "s_jql" /\ SearchRaised(i) = {}

\* a non-2xx answer of tier (b) is raised with its status and reason
TierBStatusInMessage(i) ==
  (run[i].last.step = "jql" /\ ~run[i].last.resp.threw
     /\ ~Is2xx(run[i].last.resp.status))
  => \E k \in SearchRaised(i) :
       /\ Includes(log[k].b, Digits(run[i].last.resp.status))
       /\ Includes(log[k].b, StatusText(run[i].last.resp.status))

\* C7 as amended: no failure of tier (a) raises, tier (b) is asked after it;
\* _callJiraAPI raises exactly when the tier (b) request throws, is answered
\* non-2xx, or its body is no JSON, has no `issues` array or holds an entry
\* without the fields read; for a non-2xx answer the message holds the status
\* code and the reason.
C7_OnlyTierBRaises ==
  \A i \in DOMAIN run :
    /\ TierAFallsBack(i)
    /\ SearchRaised(i) # {}
       <=> (run[i].last.step = "jql" /\ BoardIssuesUnusable(run[i].last.resp))
    /\ TierBStatusInMessage(i)

\* C7 as stated: _callJiraAPI raises only when tier (b) is answered non-2xx or
\* with a body without an `issues` array.
C7_AsStated ==
  \A i \in DOMAIN run :
    /\ TierAFallsBack(i)
    /\ SearchRaised(i) # {}
       => /\ run[i].last.step = "jql"
          /\ ~run[i].last.resp.threw
          /\ \/ ~Is2xx(run[i].last.resp.status)
             \/ run[i].last.resp.body.malformed
             \/ run[i].last.resp.body.issuesShape # "array"
    /\ TierBStatusInMessage(i)

\* the boards request was answered 404, tier (b) 500, and the search raised
C7_Witness ==
  /\ \E k \in DOMAIN log : IsHttp(log[k], "GET board") /\ log[k].c = 404
  /\ \E k \in DOMAIN log : IsHttp(log[k], "GET search") /\ log[k].c = 500
  /\ SearchRaised(1) # {}

\* the requests made for the attachment with this URL
Requests(i, url) ==
  {k \in DOMAIN log : log[k].inv = i /\ IsHttp(log[k], "GET attachment") /\ log[k].b = url}

\* the document holds a piece of kind k with text v
Holds(context, k, v) ==
  \E n \in DOMAIN context : context[n] = Line(k, v)

\* C8: when _fetchFullIssueDetailsWithAttachments returns, a download request
\* was made for an attachment iff its size is below 5 * 1024 * 1024, whatever
\* its MIME type and file name, and no attachment was requested twice; each
\* attachment at or over that size has a "too large" note in the document.
C8_DownloadIffUnderCeiling ==
  \A i \in DOMAIN run :
    (DetailFetched(i) /\ run[i].pc = "done")
    => \A n \in DOMAIN run[i].issue.attachment :
         LET att == run[i].issue.attachment[n]
         IN /\ att.size < 5 * 1024 * 1024 <=> Requests(i, att.content) # {}
            /\ Cardinality(Requests(i, att.content)) <= 1
            /\ att.size >= 5 * 1024 * 1024
               => Holds(run[i].context, "too_large",
                        Digits(RoundDiv(att.size, 1024 * 1024)))

\* C8 where it holds: a workspace folder is open
C8_WithWorkspaceOpen ==
  workspace # NoWorkspace => C8_DownloadIffUnderCeiling

\* C9: when _fetchFullIssueDetailsWithAttachments is through with an issue,
\* it has not thrown after an attachment request, and for each attachment whose
\* request threw or was answered non-2xx the document holds a note with the
\* attachment's URL, and every later attachment under the ceiling was requested.
C9_FailedDownloadIsNoted ==
  \A i \in DOMAIN run :
    (run[i].pc = "done" /\ ~run[i].issue.malformed)
    => \A n \in DOMAIN run[i].issue.attachment :
         LET att == run[i].issue.attachment[n]
         IN (\E k \in Requests(i, att.content) : ~Is2xx(log[k].c))
            => /\ DetailFetched(i)
               /\ Holds(run[i].context, "could_not_download", att.content)
               /\ \A m \in DOMAIN run[i].issue.attachment :
                    (m > n /\ run[i].issue.attachment[m].size < 5 * 1024 * 1024)
                    => Requests(i, run[i].issue.attachment[m].content) # {}

\* C9 where it holds: the request threw
C9_ThrownDownloadIsNoted ==
  \A i \in DOMAIN run :
    (run[i].pc = "done" /\ ~run[i].issue.malformed)
    => \A n \in DOMAIN run[i].issue.attachment :
         LET att == run[i].issue.attachment[n]
         IN (\E k \in Requests(i, att.content) : log[k].c = 0)
            => /\ DetailFetched(i)
               /\ Holds(run[i].context, "could_not_download", att.content)
               /\ \A m \in DOMAIN run[i].issue.attachment :
                    (m > n /\ run[i].issue.attachment[m].size < 5 * 1024 * 1024)
                    => Requests(i, run[i].issue.attachment[m].content) # {}

\* some label holds bug, defect or fix, in any case of the letters
HasBugLabel(labels) ==
  \E n \in DOMAIN labels : \E word \in {TypeText.bug, TypeText.defect, TypeText.fix} :
    Includes(ToLower(labels[n]), word)

\* C10: when the request of _getIssueType is answered 2xx with an issue that has
\* a label holding bug, defect or fix in any case of the letters, the type is
\* bug whatever the issue type name is, and every checkout _setupGitBranch then
\* issues for the issue branch names bug/proj-7; when no command is made to
\* fail and the directory holds files or commits, the run ends on that branch.
C10_BugLabelWins ==
  \A i \in DOMAIN run :
    (run[i].last.step = "classify" /\ Ok(run[i].last.resp)
       /\ ~run[i].last.resp.body.malformed
       /\ HasBugLabel(run[i].last.resp.body.labels))
    => /\ run[i].issueType = "bug"
       /\ \A n \in DOMAIN run[i].gitRuns :
            LET gr == run[i].gitRuns[n]
            IN /\ \A k \in DOMAIN gr.evs :
                    /\ (gr.evs[k].ev = "git" /\ gr.evs[k].a = "checkout_issue")
                       => gr.evs[k].b = GitText.git_checkout \o Input.bug_proj7
                    /\ (gr.evs[k].ev = "git" /\ gr.evs[k].a = "checkout_new")
                       => gr.evs[k].b = GitText.git_checkout_b \o Input.bug_proj7
               /\ (Undisturbed(gr) /\ gr.before # EmptyDir)
                  => gr.after.current = Input.bug_proj7

\* an issue of type Story labelled "hotFIX", after its branch was created
C10_Witness ==
  /\ run[1].last.step = "classify"
  /\ Ok(run[1].last.resp)
  /\ ~run[1].last.resp.body.malformed
  /\ run[1].last.resp.body.typeName = Input.Story
  /\ run[1].last.resp.body.labels = <<Input.backend, Input.hotFIX>>
  /\ Len(run[1].gitRuns) = 1
  /\ repo.current = Input.bug_proj7


\* the events of the log at which _getGitChangeset returned
ChangesetReturns ==
  {k \in DOMAIN log : log[k].ev = "return" /\ log[k].a = "_getGitChangeset"}

\* every `git diff` of the log exited 0
DiffsWorked ==
  \A k \in DOMAIN log :
    (log[k].ev = "git" /\ log[k].a \in {"diff_cached", "diff"}) => log[k].c

\* C11: when its git commands work, _getGitChangeset returns the staged diff
\* when there is one, otherwise the unstaged diff when there is one, otherwise
\* the empty string; the unstaged diff is only asked for when the staged one is
\* empty.
C11_ChangesetPrefersStaged ==
  \A k \in ChangesetReturns :
    DiffsWorked =>
      /\ log[k].b = (IF repo.staged # {} THEN DiffLines(repo.staged)
                     ELSE IF repo.unstaged # {} THEN DiffLines(repo.unstaged)
                     ELSE <<>>)
      /\ repo.staged # {} => \A m \in DOMAIN log : ~(log[m].ev = "git" /\ log[m].a = "diff")

\* a working tree with unstaged changes only, whose diff was returned
C11_Witness ==
  /\ repo.isRepo /\ repo.staged = {} /\ repo.unstaged = {"a.ts", "b.ts"}
  /\ DiffsWorked
  /\ \E k \in ChangesetReturns : log[k].b = Input.diff_a \o Input.diff_b

\* C12: in create unit tests, when the captured changeset is empty the flow
\* shows the warning "No changes detected..." and ends: no prompt is built,
\* nothing goes to the chat or its fallback, and no error is shown.
C12_EmptyChangesetStopsCleanly ==
  \A i \in DOMAIN run : \A k \in ChangesetReturns :
    (log[k].inv = i /\ Trim(log[k].b) = <<>>)
    => /\ run[i].pc = "done"
       /\ run[i].context = <<>>
       /\ k < Len(log) /\ IsMsg(log[k + 1], "warn") /\ log[k + 1].b = TestsText.NoChanges
       /\ k + 1 = Len(log)
       /\ \A m \in DOMAIN log :
            /\ log[m].ev \notin {"sink", "fallback", "throw"}
            /\ ~IsMsg(log[m], "error")

\* a clean working tree, staged and captured without a failing command
C12_Witness ==
  /\ repo.isRepo /\ repo.staged = {} /\ repo.unstaged = {}
  /\ \A k \in DOMAIN log : log[k].ev = "git" => log[k].c
  /\ \E k \in ChangesetReturns : log[k].b = <<>>
  /\ run[1].pc = "done"

-----------------------------------------------------------------------------
(* The rich-text renderer                                                  *)

\* the positions of the log where _extractTextFromADF returned or threw
RenderEnds ==
  {k \in DOMAIN log : log[k].ev \in {"return", "throw"} /\ log[k].a = "_extractTextFromADF"}

\* the literal text fragments of a list of nodes, in document order
RECURSIVE Fragments(_)
Fragments(items) ==
  IF items = <<>> THEN <<>>
  ELSE LET n == Head(items)
       IN (IF n.type = "text" THEN <<n.text>>
           ELSE IF n.content.js = "array" THEN Fragments(n.content.items)
           ELSE <<>>)
          \o Fragments(Tail(items))

\* a list of nodes made of text, paragraph and heading nodes only
RECURSIVE OnlyTextParagraphHeading(_)
OnlyTextParagraphHeading(items) ==
  \A k \in DOMAIN items :
    LET n == items[k]
    IN /\ n.js = "object"
       /\ \/ n.type = "text" /\ n.hasText
          \/ /\ n.type \in {"paragraph", "heading"}
             /\ n.level >= 0
             /\ n.content.js \in {"absent", "array"}
             /\ n.content.js = "array" => OnlyTextParagraphHeading(n.content.items)

\* the document an invocation renders is one of text, paragraph and heading
\* nodes only
PlainDocument(i) ==
  /\ run[i].issue.js = "object"
  /\ run[i].issue.content.js = "array"
  /\ OnlyTextParagraphHeading(run[i].issue.content.items)

\* text s holds the fragments, in order, each once: taking the fragments out
\* from left to right leaves only the marks the renderer adds ("#", blanks and
\* line ends)
RECURSIVE HoldsInOrder(_, _)
HoldsInOrder(frags, s) ==
  IF frags = <<>> THEN \A k \in DOMAIN s : s[k] \in {"#", " ", "\n"}
  ELSE LET f == Head(frags)
           at == {p \in 1..(Len(s) - Len(f) + 1) : SubSeq(s, p, p + Len(f) - 1) = f}
           first == CHOOSE p \in at : \A q \in at : p <= q
       IN /\ at # {}
          /\ \A k \in 1..(first - 1) : s[k] \in {"#", " ", "\n"}
          /\ HoldsInOrder(Tail(frags), SubSeq(s, first + Len(f), Len(s)))

\* the fragments as the final trim may leave them: the blanks and line ends
\* that begin the first fragments, or end the last ones, may be gone
TrimmedAtEnds(frags) ==
  LET TrimStart(f) == LET t == Trim(f \o <<"x">>) IN SubSeq(t, 1, Len(t) - 1)
      TrimEnd(f) == LET t == Trim(<<"x">> \o f) IN SubSeq(t, 2, Len(t))
      RECURSIVE Left(_)
      Left(fs) == IF fs = <<>> THEN <<>>
                  ELSE IF TrimStart(Head(fs)) = <<>> THEN <<<<>>>> \o Left(Tail(fs))
                  ELSE <<TrimStart(Head(fs))>> \o Tail(fs)
      RECURSIVE Right(_)
      Right(fs) == IF fs = <<>> THEN <<>>
                   ELSE IF TrimEnd(fs[Len(fs)]) = <<>>
                     THEN Right(SubSeq(fs, 1, Len(fs) - 1)) \o <<<<>>>>
                   ELSE SubSeq(fs, 1, Len(fs) - 1) \o <<TrimEnd(fs[Len(fs)])>>
  IN {frags, Left(frags), Right(frags), Left(Right(frags))}

\* C13 as the specification states it: the output of a document of text,
\* paragraph and heading nodes holds every literal text fragment, in document
\* order, exactly once.
C13_AsStated ==
  \A k \in RenderEnds :
    PlainDocument(log[k].inv) =>
      /\ log[k].ev = "return"
      /\ HoldsInOrder(Fragments(run[log[k].inv].issue.content.items), log[k].b)

\* C13: the output of a document of text, paragraph and heading nodes holds
\* every literal text fragment, in document order, exactly once, up to the
\* blanks and line ends that the final trim removes at the two ends of the
\* output.
C13_FragmentsKeptUpToTrim ==
  \A k \in RenderEnds :
    PlainDocument(log[k].inv) =>
      /\ log[k].ev = "return"
      /\ \E frags \in TrimmedAtEnds(Fragments(run[log[k].inv].issue.content.items)) :
           HoldsInOrder(frags, log[k].b)

\* a heading and a paragraph with three fragments between them were rendered,
\* and the trim took the blank that ends the last fragment
C13_Witness ==
  \E k \in RenderEnds :
    /\ PlainDocument(log[k].inv)
    /\ \E h, p \in DOMAIN run[log[k].inv].issue.content.items :
         /\ run[log[k].inv].issue.content.items[h].type = "heading"
         /\ run[log[k].inv].issue.content.items[p].type = "paragraph"
    /\ Fragments(run[log[k].inv].issue.content.items)
         = <<Input.frag_a, Input.frag_c, Input.frag_b>>
    /\ log[k].ev = "return"
    /\ ~HoldsInOrder(Fragments(run[log[k].inv].issue.content.items), log[k].b)

\* C14: _extractTextFromADF never throws, whatever it is given: a missing
\* document, a child list that is absent or no list, a null or untyped child.
C14_RenderNeverThrows ==
  \A k \in RenderEnds : log[k].ev = "return"

-----------------------------------------------------------------------------
(* The inline document                                                     *)

\* the positions of the log where _fetchFullIssueDetails returned its document
InlineReturns ==
  {k \in DOMAIN log : log[k].ev = "return" /\ log[k].a = "_fetchFullIssueDetails"}

\* the kinds of the pieces a document holds for the attachment named
\* `filename`: those between its heading and the end of its loop pass
AttachmentPieces(doc, filename) ==
  LET from == CHOOSE p \in DOMAIN doc : doc[p] = Line("attachment", filename)
      to == CHOOSE p \in DOMAIN doc : doc[p] = Line("attachment_end", filename)
  IN {doc[p] : p \in from..to}

\* the statuses of the answers to requests for an attachment's content
AttachmentAnswers(att) ==
  {log[m].c : m \in {n \in DOMAIN log : /\ log[n].ev = "http"
                                        /\ log[n].a = "GET attachment"
                                        /\ log[n].b = att.content}}

\* the categories of the attachments, by MIME type or by the end of the name
TextLike(att) ==
  att.mimeType = Input.text_plain \/ att.filename = Input.README_md

ImageOrDocument(att) ==
  ~TextLike(att) /\ att.mimeType \in {Input.image_png, Input.application_pdf}

\* C15: in the document of _fetchFullIssueDetails, a text-like attachment is
\* requested iff it is under 5 MiB, and its content is inlined when the request
\* succeeds; an image or a document is requested iff it is under 2 MiB and, when
\* the request succeeds, noted as available at its URL, never inlined; every
\* other attachment is not requested; every attachment is listed with its size
\* in KB, and one at or over its threshold gets the "too large" note with its
\* size in MB.
C15_InlineDecisions ==
  \A k \in InlineReturns :
    LET issue == run[log[k].inv].issue
    IN \A j \in DOMAIN issue.attachment :
         LET att == issue.attachment[j]
             pieces == AttachmentPieces(log[k].b, att.filename)
             kinds == {p.k : p \in pieces}
             answers == AttachmentAnswers(att)
             threshold == IF TextLike(att) THEN 5 * 1024 * 1024 ELSE 2 * 1024 * 1024
             wanted == (TextLike(att) \/ ImageOrDocument(att)) /\ att.size < threshold
         IN /\ answers # {} <=> wanted
            /\ Line("size_kb", Digits(RoundDiv(att.size, 1024))) \in pieces
            /\ Line("url", att.content) \in pieces
            /\ "content" \in kinds
                 <=> (TextLike(att) /\ answers = {200} /\ "could_not_download" \notin kinds)
            /\ (kinds \cap {"image_note", "document_note"} # {})
                 <=> (ImageOrDocument(att) /\ answers = {200})
            /\ "too_large" \in kinds <=> att.size >= threshold
            /\ att.size >= threshold
                 => Line("too_large", Digits(RoundDiv(att.size, 1024 * 1024))) \in pieces

\* an archive, a PDF of exactly 2 MiB and a text file by name only: the first
\* two were not requested, the third was and its content is in the document
C15_Witness ==
  \E k \in InlineReturns :
    LET issue == run[log[k].inv].issue
    IN /\ Len(issue.attachment) = 3
       /\ issue.attachment[2].size = 2 * 1024 * 1024
       /\ AttachmentAnswers(issue.attachment[1]) = {}
       /\ AttachmentAnswers(issue.attachment[2]) = {}
       /\ AttachmentAnswers(issue.attachment[3]) = {200}
       /\ Line("content", Input.file_text) \in AttachmentPieces(log[k].b, Input.README_md)
       /\ "too_large" \in {p.k : p \in AttachmentPieces(log[k].b, Input.spec_pdf)}

-----------------------------------------------------------------------------
(* Start work: where the files go, and what becomes of the document       *)

\* C16: every file start work writes for directory D and issue K lies in
\* D/.jira-context/K, whether or not D is the folder open in the editor.
C16_WritesUnderTargetDirectory ==
  \A k \in DOMAIN log :
    (log[k].ev = "write" /\ log[k].a = "writeFileSync")
    => LET r == run[log[k].inv]
           folder == r.directory \o <<ContextText.jira_context, r.issueKey>>
       IN /\ Len(log[k].b) = Len(folder) + 1
          /\ SubSeq(log[k].b, 1, Len(folder)) = folder

\* the positions of the log where a document reached the chat
Deliveries ==
  {k \in DOMAIN log : log[k].ev = "sink" /\ log[k].a = "workbench.action.chat.open"}

\* the positions of the log where activate found a pending prompt
Consumptions ==
  {k \in DOMAIN log : log[k].ev = "call" /\ log[k].a = "activate" /\ log[k].b # <<>>}

-----------------------------------------------------------------------------
(* The issue-list refresh: what the user sees of a failure                 *)

\* the positions of the log where the project listing or the search raised
RefreshRaised(i) ==
  {k \in DOMAIN log : /\ log[k].inv = i
                      /\ log[k].ev = "throw"
                      /\ log[k].a \in {"_getJiraProjects", "_callJiraAPI"}}

\* the hints and the error messages shown
HintsShown(i) ==
  {k \in DOMAIN log : /\ log[k].inv = i
                      /\ IsMsg(log[k], "warn")
                      /\ log[k].b = IssuesText.SearchUnavailable}

ErrorsShown(i) ==
  {k \in DOMAIN log : log[k].inv = i /\ IsMsg(log[k], "error")}

\* what both readings of C18 share: a failure ends the refresh inside
\* _fetchJiraIssues, nothing is shown without one, and an error message holds
\* the message raised, with the status code and reason of a non-2xx answer
FailureEndsInCatch(i) ==
  /\ \A k \in DOMAIN log : ~(log[k].ev = "throw" /\ log[k].a = "_fetchJiraIssues")
  /\ RefreshRaised(i) = {} => (HintsShown(i) = {} /\ ErrorsShown(i) = {})
  /\ \A k \in RefreshRaised(i) :
       /\ run[i].pc = "done"
       /\ Cardinality(RefreshRaised(i)) = 1
       /\ Cardinality(HintsShown(i) \cup ErrorsShown(i)) = 1
       /\ \A e \in ErrorsShown(i) :
            /\ e > k
            /\ log[e].b = IssuesText.FailedFetchIssues \o log[k].b
            /\ (~run[i].last.resp.threw /\ ~Is2xx(run[i].last.resp.status))
               => /\ Includes(log[e].b, Digits(run[i].last.resp.status))
                  /\ Includes(log[e].b, StatusText(run[i].last.resp.status))

\* C18 as stated: the hint is shown exactly when the search was answered 410,
\* every other failure gets one error message.
C18_AsStated ==
  \A i \in DOMAIN run :
    /\ FailureEndsInCatch(i)
    /\ \A k \in RefreshRaised(i) :
         HintsShown(i) # {}
           <=> (run[i].last.step = "jql" /\ ~run[i].last.resp.threw
                  /\ run[i].last.resp.status = 410)

\* C18: no failure of the project listing or of the search leaves
\* _fetchJiraIssues; the hint is shown, instead of an error, exactly when the
\* message raised holds "410", which is when the search or the project listing
\* was answered 410; every other failure gets one error message that holds the
\* message raised.
C18_HintForAny410 ==
  \A i \in DOMAIN run :
    /\ FailureEndsInCatch(i)
    /\ \A k \in RefreshRaised(i) :
         /\ HintsShown(i) # {} <=> Includes(log[k].b, IssuesText.n410)
         /\ Includes(log[k].b, IssuesText.n410)
              <=> (~run[i].last.resp.threw /\ run[i].last.resp.status = 410)

\* the project listing was answered 410: the hint is shown and no error
C18_Witness ==
  /\ run[1].last.step = "projects"
  /\ ~run[1].last.resp.threw /\ run[1].last.resp.status = 410
  /\ RefreshRaised(1) # {}
  /\ HintsShown(1) # {}
  /\ ErrorsShown(1) = {}

-----------------------------------------------------------------------------
(* Start work: a failure while the repository is created                   *)

\* the command lines of git run gr that exited non-zero while the repository
\* was created (lines 685-688)
InitFailedLines(gr) ==
  {gr.evs[k].b : k \in {j \in DOMAIN gr.evs :
                          /\ gr.evs[j].ev = "git"
                          /\ gr.evs[j].a \in {"init", "add", "commit", "rename_main"}
                          /\ ~gr.evs[j].c}}

-----------------------------------------------------------------------------
(* The document of the detail fetch: its sections                          *)

\* C20: the document _fetchFullIssueDetailsWithAttachments returns holds the
\* metadata, every comment in the order of the issue, the attachment section
\* when there are attachments, the subtasks section when there are subtasks
\* and the linked-issues section when there are links, whether or not a
\* workspace folder is open.
C20_DocumentHasEverySection ==
  \A k \in DOMAIN log :
    (log[k].ev = "return" /\ log[k].a = DetailFetch)
    => LET doc == log[k].b
           issue == run[log[k].inv].issue
           at(line) == {p \in DOMAIN doc : doc[p] = line}
       IN /\ at(Line("title", issue.key)) # {}
          /\ at(Line("metadata", issue.typeName)) # {}
          /\ \A n \in DOMAIN issue.comments :
               at(Line("comment", CommentText(issue.comments[n]).text)) # {}
          /\ \A n, m \in DOMAIN issue.comments :
               n < m => \E p \in at(Line("comment", CommentText(issue.comments[n]).text)) :
                          \E q \in at(Line("comment", CommentText(issue.comments[m]).text)) : p < q
          /\ issue.attachment # <<>>
               => at(Line("attachments", Digits(Len(issue.attachment)))) # {}
          /\ issue.subtasks # <<>>
               => /\ at(Line("subtasks", Digits(Len(issue.subtasks)))) # {}
                  /\ \A n \in DOMAIN issue.subtasks :
                       at(Line("subtask", issue.subtasks[n])) # {}
          /\ issue.issuelinks # <<>>
               => /\ at(Line("links", <<>>)) # {}
                  /\ \A n \in DOMAIN issue.issuelinks :
                       at(Line("link", issue.issuelinks[n])) # {}

\* C20 where it holds: a workspace folder is open, or the issue has no
\* attachment
C20_WithWorkspaceOpen ==
  (\/ workspace # NoWorkspace
   \/ \A i \in DOMAIN run : run[i].issue.malformed \/ run[i].issue.attachment = <<>>)
  => C20_DocumentHasEverySection

-----------------------------------------------------------------------------
(* Activation: what is registered when activate has returned               *)

\* the invocations whose activate has returned
Activated ==
  {i \in DOMAIN run : \E k \in DOMAIN log :
      log[k].inv = i /\ log[k].ev = "call" /\ log[k].a = "activate"}

\* what invocation i registered, in order
Registered(i) ==
  SelectSeq(log, LAMBDA e : e.inv = i /\ e.ev = "register")

\* C21: once activate has returned, the view provider copilotContextView and
\* the command copilot-context-executor.executePrompt are registered, once
\* each, with or without a stored prompt, and whatever the delayed delivery
\* of the prompt does later.
C21_RegisteredAfterActivate ==
  \A i \in Activated :
    /\ Len(Registered(i)) = 2
    /\ Registered(i)[1].a = "copilotContextView"
    /\ Registered(i)[2].a = "copilot-context-executor.executePrompt"

\* an activation found a stored prompt whose delivery failed later, another
\* one found nothing; both registered the provider and the command
C21_Witness ==
  /\ \E k \in DOMAIN log :
       /\ log[k].inv = 2 /\ log[k].ev = "fallback"
       /\ Len(Registered(2)) = 2
  /\ \E k \in DOMAIN log :
       /\ log[k].inv = 3 /\ log[k].ev = "call" /\ log[k].a = "activate"
       /\ log[k].b = <<>>
  /\ Len(Registered(3)) = 2

-----------------------------------------------------------------------------
(* Start work: the order of its steps                                      *)

\* the step of _startWorkOnIssue an event of the log belongs to: 1 status
\* transition, 2 detail fetch with the downloads, 3 classification, 4 git
\* setup, 5 hand-off, 6 refresh of the issue list; 0 for the entry of the
\* handler and for messages, which several steps show
Step(e) ==
  CASE e.ev = "http" /\ e.a \in TransitionRequests -> 1
    [] e.ev = "http" /\ e.a \in {"GET issue", "GET attachment"} -> 2
    [] e.ev = "write" -> 2
    [] e.ev \in {"return", "throw"} /\ e.a = DetailFetch -> 2
    [] e.ev = "http" /\ e.a = "GET issue type" -> 3
    [] e.ev = "git" -> 4
    [] e.ev = "call" /\ e.a = "_setupGitBranch" -> 4
    [] e.ev = "call" /\ e.a = Handoff -> 5
    [] e.ev \in {"store", "command", "sink", "fallback"} -> 5
    [] e.ev = "call" /\ e.a = "_fetchJiraIssues" -> 6
    [] e.ev = "http" /\ e.a \in {"GET project", "GET board", "GET board issues",
                                 "GET search"} -> 6
    [] e.ev = "view" -> 6
    [] OTHER -> 0

\* the attachment requests of invocation i, in the order they were made
AttachmentRequests(i) ==
  SelectSeq(log, LAMBDA e : e.inv = i /\ IsHttp(e, "GET attachment"))

\* the attachments of an issue the loop of lines 942-971 requests
Requested(issue) ==
  SelectSeq(issue.attachment, LAMBDA att : att.size < MaxSize)

\* C22: within one start work the events of the steps follow each other in
\* the order transition, detail fetch with downloads, classification, git
\* setup, hand-off, refresh: the first event is one of the transition, and
\* every later event belongs to the step of the event before it or to the
\* step after that one; the answer to one download is there before the next
\* is requested, the downloads go through the attachments in their order, and
\* the detail fetch returns only when all of them were made.
C22_StepsInOrder ==
  \A i \in DOMAIN run :
    LET mine == SelectSeq(log, LAMBDA e : e.inv = i /\ Step(e) > 0)
        reqs == AttachmentRequests(i)
    IN /\ mine # <<>> => Step(mine[1]) = 1
       /\ \A m \in 2..Len(mine) :
            /\ Step(mine[m - 1]) <= Step(mine[m])
            /\ Step(mine[m]) <= Step(mine[m - 1]) + 1
       /\ reqs # <<>> =>
            /\ ~run[i].issue.malformed
            /\ Len(reqs) <= Len(Requested(run[i].issue))
            /\ \A k \in DOMAIN reqs : reqs[k].b = Requested(run[i].issue)[k].content
            /\ DetailFetched(i) => Len(reqs) = Len(Requested(run[i].issue))

\* a start work with two downloads went through all six steps
C22_Witness ==
  /\ Len(AttachmentRequests(1)) = 2
  /\ \E k \in DOMAIN log : log[k].inv = 1 /\ Step(log[k]) = 6
  /\ \E k \in DOMAIN log : log[k].inv = 1 /\ Step(log[k]) = 1 /\ log[k].a = "POST transitions"

-----------------------------------------------------------------------------
(* _setupGitBranch: the main branch and the issue branch                   *)

\* git run gr ran the command of kind `kind`, and it exited 0
Ran(gr, kind) ==
  \E k \in DOMAIN gr.evs : gr.evs[k].ev = "git" /\ gr.evs[k].a = kind /\ gr.evs[k].c

\* C23: when the ensure-main step of _setupGitBranch has run in a repository,
\* with no command made to fail from outside, a branch named exactly main
\* exists, whatever branches were there before, and `git branch main` was run
\* exactly when no branch named main was there.
C23_MainExistsAfterEnsureMain ==
  \A i \in DOMAIN run : \A n \in DOMAIN run[i].gitRuns :
    LET gr == run[i].gitRuns[n]
    IN (Undisturbed(gr) /\ gr.before.isRepo /\ Ran(gr, "branch_list"))
         => /\ GitText.main \in gr.after.branches
            /\ Ran(gr, "branch_main") <=> GitText.main \notin gr.before.branches

\* the messages of level info that git run gr showed
InfoShown(gr) ==
  {gr.evs[k].b : k \in {j \in DOMAIN gr.evs : IsMsg(gr.evs[j], "info")}}

\* C24: when _setupGitBranch for PROJ-7 returns without having shown a
\* warning, the current branch is bug/proj-7 for an issue classified bug and
\* feature/proj-7 otherwise, and the user was told so: "Switched to existing
\* branch" when the checkout of the branch worked, "Created and switched to new
\* branch" when it had to be created.
C24_EndsOnIssueBranch ==
  \A i \in DOMAIN run : \A n \in DOMAIN run[i].gitRuns :
    LET gr == run[i].gitRuns[n]
        name == IF run[i].issueType = "bug" THEN Input.bug_proj7 ELSE Input.feature_proj7
    IN (run[i].issueKey = Input.PROJ7 /\ ~Warned(gr))
         => /\ gr.after.current = name
            /\ name \in gr.after.branches
            /\ Ran(gr, "checkout_issue") <=> ~Ran(gr, "checkout_new")
            /\ Ran(gr, "checkout_issue") => GitText.SwitchedExisting \o name \in InfoShown(gr)
            /\ Ran(gr, "checkout_new") => GitText.CreatedNew \o name \in InfoShown(gr)

\* a bug: the first run created bug/proj-7, the second one switched to it
C24_Witness ==
  /\ Len(run[1].gitRuns) = 2
  /\ run[1].issueType = "bug"
  /\ ~Warned(run[1].gitRuns[1]) /\ Ran(run[1].gitRuns[1], "checkout_new")
  /\ ~Warned(run[1].gitRuns[2]) /\ Ran(run[1].gitRuns[2], "checkout_issue")
  /\ repo.current = Input.bug_proj7

\* the repository after the first n events of a git run that started in
\* repository r: each command that exited 0 did what git does, every other
\* event left the repository alone
RECURSIVE RepoAt(_, _, _, _)
RepoAt(r, evs, n, branchName) ==
  IF n = 0 THEN r
  ELSE LET before == RepoAt(r, evs, n - 1, branchName)
           e == evs[n]
       IN IF e.ev = "git" /\ e.c THEN GitSem(before, e.a, branchName).repo ELSE before

\* C25: whenever _setupGitBranch creates the issue branch with
\* `git checkout -b`, the current branch of the repository at that moment is
\* main.
C25_CreatedFromMain ==
  \A i \in DOMAIN run : \A n \in DOMAIN run[i].gitRuns :
    LET gr == run[i].gitRuns[n]
        name == BranchName(run[i].issueKey, run[i].issueType)
    IN /\ RepoAt(gr.before, gr.evs, Len(gr.evs), name) = gr.after
       /\ \A k \in DOMAIN gr.evs :
            (gr.evs[k].ev = "git" /\ gr.evs[k].a = "checkout_new" /\ gr.evs[k].c)
              => RepoAt(gr.before, gr.evs, k - 1, name).current = GitText.main

\* a run that started on dev switched to main and created the issue branch
C25_Witness ==
  /\ Len(run[1].gitRuns) = 1
  /\ run[1].gitRuns[1].before.isRepo
  /\ run[1].gitRuns[1].before.current = Input.dev
  /\ Ran(run[1].gitRuns[1], "checkout_main")
  /\ Ran(run[1].gitRuns[1], "checkout_new")
  /\ repo.current = Input.feature_proj7

-----------------------------------------------------------------------------
(* The status transition: which transition is applied                      *)

\* the transition POSTs of invocation i, in order
Posts(i) ==
  SelectSeq(log, LAMBDA e : e.inv = i /\ IsHttp(e, "POST transitions"))

\* the name or the destination status of transition t contains, in any case,
\* "in progress" or "start"
NamesInProgress(t) ==
  \E text \in {ToLower(t.name), ToLower(t.to)} :
    Includes(text, TransitionText.in_progress) \/ Includes(text, TransitionText.start)

\* the first entry of a list of transitions that satisfies NamesInProgress
RECURSIVE FirstNamed(_)
FirstNamed(ts) ==
  IF ts = <<>> THEN NoTransition
  ELSE IF NamesInProgress(Head(ts)) THEN Head(ts)
  ELSE FirstNamed(Tail(ts))

\* C26: when the tracker has answered the transitions request with a list of
\* named transitions and the step has gone on from it, a transition was POSTed
\* exactly when the name or the destination status of some listed transition
\* contains "in progress" or "start" in any case; the one POSTed is the first
\* such transition of the list, and no second POST is made.
C26_AppliesFirstMatch ==
  \A i \in DOMAIN run :
    (run[i].last.step \in {"status", "post"}
       /\ \A k \in DOMAIN run[i].last.listed : run[i].last.listed[k].named)
    => LET listed == run[i].last.listed
           some == \E k \in DOMAIN listed : NamesInProgress(listed[k])
       IN /\ Len(Posts(i)) <= 1
          /\ some <=> Len(Posts(i)) = 1
          /\ some => Posts(i)[1].b = FirstNamed(listed).id

\* what invocation i showed to the user, in order
Shown(i) ==
  SelectSeq(log, LAMBDA e : e.inv = i /\ e.ev = "msg")

\* the answer to the status lookup names a status that counts as in progress
\* (line 792)
StatusInProgress(resp) ==
  /\ Ok(resp) /\ ~resp.body.malformed
  /\ \/ Includes(ToLower(resp.body.statusName), TransitionText.in_progress)
     \/ Includes(ToLower(resp.body.statusName), TransitionText.active)

-----------------------------------------------------------------------------
(* _getIssueType: the classification without a bug label, and on failure   *)

\* C28: _getIssueType throws nothing and returns bug or feature.  For a 2xx
\* answer with a type name and no label that contains bug, defect or fix, it
\* returns bug exactly when the type name contains "bug" or "defect" in any
\* case.  For a non-2xx answer, a fetch that throws or a body without the type
\* name it returns feature and shows nothing, and the invocation goes on to the
\* git setup, which uses the branch kind feature.
C28_TypeNameDecidesFailureIsFeature ==
  \A i \in DOMAIN run :
    run[i].last.step = "classify"
    => LET resp == run[i].last.resp
           failed == resp.threw \/ ~Ok(resp) \/ resp.body.malformed
       IN /\ run[i].issueType \in {"bug", "feature"}
          /\ run[i].pc \in {"git", "git_done"}
          /\ \A k \in DOMAIN log : ~(log[k].ev = "throw" /\ log[k].a = "_getIssueType")
          /\ (~failed /\ ~HasBugLabel(resp.body.labels))
               => (run[i].issueType = "bug"
                     <=> \/ Includes(ToLower(resp.body.typeName), TypeText.bug)
                         \/ Includes(ToLower(resp.body.typeName), TypeText.defect))
          /\ failed
               => /\ run[i].issueType = "feature"
                  /\ \A k \in DOMAIN log : ~IsMsg(log[k], "error")
                  /\ \A k, m \in DOMAIN log :
                       (k < m /\ IsHttp(log[k], "GET issue type")
                          /\ IsCall(log[m], "_setupGitBranch"))
                       => \A n \in (k + 1)..(m - 1) : log[n].ev # "msg"
                  /\ \A n \in DOMAIN run[i].gitRuns :
                       \A k \in DOMAIN run[i].gitRuns[n].evs :
                         (run[i].gitRuns[n].evs[k].ev = "git"
                            /\ run[i].gitRuns[n].evs[k].a = "checkout_issue")
                         => run[i].gitRuns[n].evs[k].b
                              = GitText.git_checkout \o Input.feature_proj7

\* an issue of type "Production DEFECT" labelled backend was classified bug,
\* and the git setup ran
C28_Witness ==
  /\ run[1].last.step = "classify"
  /\ Ok(run[1].last.resp) /\ ~run[1].last.resp.body.malformed
  /\ run[1].last.resp.body.typeName = Input.ProductionDefect
  /\ run[1].last.resp.body.labels = <<Input.backend>>
  /\ run[1].issueType = "bug"
  /\ Len(run[1].gitRuns) = 1

\* the type request was answered 404: feature, and the git setup ran
C28_WitnessFailure ==
  /\ run[1].last.step = "classify"
  /\ ~run[1].last.resp.threw /\ run[1].last.resp.status = 404
  /\ run[1].issueType = "feature"
  /\ Len(run[1].gitRuns) = 1

-----------------------------------------------------------------------------
(* Create unit tests: a staging that fails                                 *)

\* the positions of the log where `git add .` exited non-zero
StagingFailures ==
  {k \in DOMAIN log : log[k].ev = "git" /\ log[k].a = "add" /\ ~log[k].c}

\* C29: in create unit tests, when `git add .` fails, the user is shown the
\* error "Error: Failed to stage changes. Make sure you have Git initialized."
\* and the flow ends there: no `git diff` is run, _getGitChangeset is not
\* called, and nothing is handed to the chat or offered for copying.
C29_StagingFailureStopsFlow ==
  \A k \in StagingFailures :
    /\ Len(log) = k + 1
    /\ IsMsg(log[k + 1], "error")
    /\ log[k + 1].b = StartWorkText.ErrorPrefix \o TestsText.FailedStage
    /\ run[log[k].inv].pc = "done"
    /\ \A m \in DOMAIN log :
         /\ ~(log[m].ev = "git" /\ log[m].a \in {"diff_cached", "diff"})
         /\ ~(log[m].ev = "return" /\ log[m].a = "_getGitChangeset")
         /\ log[m].ev \notin {"sink", "fallback"}

\* `git add .` failed in a directory that is no repository
C29_Witness ==
  /\ StagingFailures # {}
  /\ ~repo.isRepo
  /\ \E k \in DOMAIN log : IsMsg(log[k], "error")
  /\ run[1].pc = "done"

-----------------------------------------------------------------------------
(* The description and the comment bodies of the document, by shape        *)

\* the document a detail fetch of run `i` returned, <<>> when it returned none
Returned(i) ==
  LET at == {k \in DOMAIN log :
               log[k].inv = i /\ log[k].ev = "return" /\ log[k].a = DetailFetch}
  IN IF at = {} THEN <<>> ELSE log[CHOOSE k \in at : TRUE].b

\* `piece` is what the claim has for `value`: a string as it is, a value with
\* a content list rendered, any other object with every property name and
\* every property value in it
HandledByShape(value, piece) ==
  CASE value.js = "string" -> piece = value.text
    [] value.js = "object" /\ value.content.js = "array" ->
         /\ ~ExtractTextFromADF(value).threw
         /\ piece = ExtractTextFromADF(value).text
    [] OTHER -> \A n \in DOMAIN value.fields :
                  Includes(piece, value.fields[n][1]) /\ Includes(piece, value.fields[n][2])

\* the runs whose detail request was answered 2xx with an issue that has all
\* its fields and no attachment
AnsweredWithIssue ==
  {i \in DOMAIN run :
     /\ run[i].last.step = "fetch"
     /\ ~run[i].last.resp.threw
     /\ Ok(run[i].last.resp)
     /\ ~run[i].last.resp.body.malformed
     /\ run[i].last.resp.body.attachment = <<>>}

\* the document run `i` got has one description piece and one comment piece
\* for each comment, in the order of the comments, each handled by its shape
ShapesHandled(i) ==
  LET issue == run[i].last.resp.body
      doc == Returned(i)
      pieces(kind) == SelectSeq(doc, LAMBDA line : line.k = kind)
  IN /\ Len(pieces("description")) = 1
     /\ HandledByShape(issue.description, pieces("description")[1].v)
     /\ Len(pieces("comment")) = Len(issue.comments)
     /\ \A n \in DOMAIN issue.comments :
          HandledByShape(issue.comments[n], pieces("comment")[n].v)

\* C30: when the detail request is answered with an issue, a document is
\* returned whose description piece is the description handled by its shape
\* (a string unchanged, a value with a content list rendered, any other
\* object serialized with every property), and whose comment pieces are, one
\* for each comment and in the tracker's order, the comment bodies handled
\* the same way.
C30_BodiesHandledByShape ==
  \A i \in AnsweredWithIssue : ShapesHandled(i)

\* an issue whose description has a `content` that is no list was fetched,
\* and no document was returned
C30_ContentNoList ==
  \E i \in AnsweredWithIssue :
    /\ run[i].last.resp.body.description.js = "object"
    /\ run[i].last.resp.body.description.content.js = "string"
    /\ Returned(i) = <<>>
    /\ run[i].pc = "done"

\* the bodies are handled as C30 has it when every `content` there is, is a
\* list
C30_WithContentLists ==
  \A i \in AnsweredWithIssue :
    LET issue == run[i].last.resp.body
        listed(value) == value.js = "object" => value.content.js \in {"absent", "array"}
    IN (listed(issue.description) /\ \A n \in DOMAIN issue.comments : listed(issue.comments[n]))
         => ShapesHandled(i)

\* a document with a rendered description, a serialized comment and a plain
\* comment, in the tracker's order
C30_ThreeShapes ==
  \E i \in AnsweredWithIssue :
    LET issue == run[i].last.resp.body
    IN /\ Len(issue.comments) = 3
       /\ issue.comments[1].js = "string"
       /\ issue.comments[2].content.js = "array"
       /\ issue.comments[3].content.js = "absent" /\ issue.comments[3].fields # <<>>
       /\ ShapesHandled(i)

-----------------------------------------------------------------------------
(* The attachment files: where they are written                            *)

\* the positions of the log where a file was written
Writes ==
  {k \in DOMAIN log : log[k].ev = "write" /\ log[k].a = "writeFileSync"}

\* `path` lies in the directory line 937 makes for the issue of run `i`
InSandbox(i, path) ==
  LET sandbox == workspace \o <<ContextText.jira_context, run[i].issueKey>>
  IN /\ Len(path) > Len(sandbox)
     /\ SubSeq(path, 1, Len(sandbox)) = sandbox

\* the attachment of run `i` whose download was answered just before
\* position `k` of the log
WrittenFor(k) ==
  CHOOSE att \in {run[log[k].inv].last.resp.body.attachment[n] :
                    n \in DOMAIN run[log[k].inv].last.resp.body.attachment} :
    att.content = log[k - 1].b

\* C31: every file the detail fetch writes, whatever the file name the
\* tracker gave (separators and ".." segments included), lies inside the
\* directory .jira-context/<issue key> of the open folder.
C31_WritesInsideSandbox ==
  \A k \in Writes : InSandbox(log[k].inv, log[k].b)

\* the file of an attachment named ../../evil.sh was written, outside the
\* directory of the issue
C31_Escaped ==
  \E k \in Writes :
    /\ WrittenFor(k).filename = Input.evil_name
    /\ ~InSandbox(log[k].inv, log[k].b)
    /\ log[k].b = workspace \o <<BaseName(log[k].b)>>

\* files whose names have no ".." segment are written inside the directory
C31_WithoutDotDot ==
  \A k \in Writes :
    (\A n \in DOMAIN SplitPath(WrittenFor(k).filename, <<>>) :
       SplitPath(WrittenFor(k).filename, <<>>)[n] # Runtime.dotdot)
    => InSandbox(log[k].inv, log[k].b)

-----------------------------------------------------------------------------
(* Create unit tests: a diff that fails                                    *)

\* the positions of the log where `git diff --cached` or `git diff` exited
\* non-zero
DiffFailures ==
  {k \in DOMAIN log : log[k].ev = "git" /\ log[k].a \in {"diff_cached", "diff"} /\ ~log[k].c}

\* C39: in create unit tests, when `git diff --cached` or `git diff` fails,
\* _getGitChangeset throws nothing and returns the empty string, and the flow
\* ends with the warning "No changes detected. Please make code changes
\* first.": no error is shown and nothing is handed to the chat.
C39_FailedDiffIsNoChanges ==
  \A k \in DiffFailures :
    /\ Len(log) = k + 2
    /\ log[k + 1].ev = "return" /\ log[k + 1].a = "_getGitChangeset"
    /\ log[k + 1].b = <<>>
    /\ IsMsg(log[k + 2], "warn")
    /\ log[k + 2].b = TestsText.NoChanges
    /\ run[log[k].inv].pc = "done"
    /\ \A m \in DOMAIN log :
         /\ ~IsMsg(log[m], "error")
         /\ ~(log[m].ev = "throw" /\ log[m].a = "_getGitChangeset")
         /\ log[m].ev \notin {"sink", "fallback"}

\* `git diff --cached` failed while a file saved after the staging differs
\* from the index, and the flow ended with the warning
C39_Witness ==
  /\ \E k \in DiffFailures : log[k].a = "diff_cached"
  /\ repo.unstaged # {}
  /\ \E k \in DOMAIN log : IsMsg(log[k], "warn") /\ log[k].b = TestsText.NoChanges
  /\ run[1].pc = "done"

-----------------------------------------------------------------------------
(* Start work: the transition is not taken back                            *)

\* the runs whose transition POST was answered 2xx and whose detail request
\* was then answered non-2xx, threw, or ended in an error thrown by
\* _fetchFullIssueDetailsWithAttachments
MovedThenFailed ==
  {i \in DOMAIN run :
     \E k, m \in DOMAIN log :
       /\ k < m
       /\ log[k].inv = i /\ IsHttp(log[k], "POST transitions") /\ Is2xx(log[k].c)
       /\ log[m].inv = i
       /\ \/ IsHttp(log[m], "GET issue") /\ ~Is2xx(log[m].c)
          \/ log[m].ev = "throw" /\ log[m].a = DetailFetch}

\* C36: in a start work whose transition POST succeeded and whose detail
\* fetch then fails, the run ends there with the error shown: the issue
\* stays in progress on the tracker, no request goes to the tracker after the
\* failed one, no git command is run, and no document is delivered or stored.
C36_TransitionNotReverted ==
  \A i \in MovedThenFailed :
    /\ run[i].pc = "done"
    /\ run[i].issueKey \in tracker
    /\ IsMsg(log[Len(log)], "error")
    /\ log[Len(log) - 1].ev = "throw" /\ log[Len(log) - 1].a = DetailFetch
    /\ \A k \in DOMAIN log :
         /\ log[k].ev \notin {"git", "sink", "fallback", "store", "command"}
         /\ ~IsCall(log[k], "_setupGitBranch")
         /\ ~IsCall(log[k], Handoff)
         /\ IsHttp(log[k], "POST transitions") => Is2xx(log[k].c)
         /\ (log[k].ev = "http" /\ k < Len(log) - 2) => log[k].a # "GET issue"

\* the POST was answered 204, the detail request 500, and the run is over
\* with the issue in progress and the repository as it was
C36_Witness ==
  /\ 1 \in MovedThenFailed
  /\ \E k \in DOMAIN log : IsHttp(log[k], "GET issue") /\ log[k].c = 500
  /\ Input.PROJ7 \in tracker
  /\ run[1].pc = "done"
  /\ repo = Repo({Input.dev}, Input.dev)

-----------------------------------------------------------------------------
(* The attachment files: the list that is handed on                        *)

\* the positions of the log where the request for attachment `att` of run `i`
\* was answered 2xx and the file was written
WrittenAt(i, att) ==
  {j \in DOMAIN log :
     /\ log[j].inv = i /\ IsHttp(log[j], "GET attachment") /\ log[j].b = att.content
     /\ Is2xx(log[j].c)
     /\ j + 1 \in Writes /\ log[j + 1].inv = i}

\* the attachments of the issue of run `i` that were under the ceiling,
\* answered 2xx and written, in the tracker's order
Kept(i) ==
  SelectSeq(run[i].issue.attachment,
            LAMBDA att : att.size < MaxSize /\ WrittenAt(i, att) # {})

\* C38: the list of attachment paths _fetchFullIssueDetailsWithAttachments
\* returns holds, in the tracker's order, the file written for each
\* attachment that was under 5 MiB, answered 2xx and written, and nothing
\* else; the files section of the document names exactly the files of that
\* list, and is not there when the list is empty; the hand-off is called
\* with that list.
C38_ListIsTheWrittenFiles ==
  \A k \in DOMAIN log :
    (log[k].ev = "return" /\ log[k].a = DetailFetch)
    => LET i == log[k].inv
           doc == log[k].b
           files == log[k].c
           named == SelectSeq(doc, LAMBDA line : line.k = "file")
       IN /\ Len(files) = Len(Kept(i))
          /\ \A n \in DOMAIN files :
               /\ \E j \in WrittenAt(i, Kept(i)[n]) : log[j + 1].b = files[n]
               /\ BaseName(files[n]) = BaseName(SplitPath(Kept(i)[n].filename, <<>>))
          /\ Cardinality(Writes) = Len(files)
          /\ named = [n \in DOMAIN files |-> Line("file", BaseName(files[n]))]
          /\ (\E n \in DOMAIN doc : doc[n].k = "files") <=> files # <<>>
          /\ \A m \in DOMAIN log :
               (log[m].inv = i /\ IsCall(log[m], Handoff)) => log[m].c = files

\* of three attachments the first was written, the second was over the
\* ceiling and the third was refused by the tracker
C38_Witness ==
  \E k \in DOMAIN log :
    /\ log[k].ev = "return" /\ log[k].a = DetailFetch
    /\ Len(run[log[k].inv].issue.attachment) = 3
    /\ Len(log[k].c) = 1
    /\ BaseName(log[k].c[1]) = Input.notes_txt
    /\ \E j \in DOMAIN log : IsHttp(log[j], "GET attachment") /\ log[j].c = 404

\* an attachment whose file could not be written is not in the list
C38_WitnessWriteFailed ==
  \E k \in DOMAIN log :
    /\ log[k].ev = "return" /\ log[k].a = DetailFetch
    /\ \E j \in DOMAIN log :
         /\ j < k /\ IsHttp(log[j], "GET attachment") /\ Is2xx(log[j].c)
         /\ j + 1 \notin Writes
    /\ log[k].c # <<>>

-----------------------------------------------------------------------------
(* The setup flow                                                          *)

\* the positions of the log where a configuration was saved
Saves ==
  {k \in DOMAIN log : log[k].ev = "store" /\ log[k].a = "jiraConfig"}

\* every property of the list is a property of `config`, with a text that
\* is not empty
Populated(config, properties) ==
  \A p \in properties : p \in DOMAIN config /\ config[p] \notin {<<>>, <<"undefined">>}

\* C33: every configuration _configureJira saves has the kind 'cloud' or
\* 'datacenter', a base URL, and the credentials of its kind and no others:
\* email and API token for cloud, username and password for datacenter.
C33_SavedConfigurationShape ==
  \A k \in Saves :
    LET config == log[k].b
    IN /\ config.type \in {ConfigureText.cloud, ConfigureText.datacenter}
       /\ Populated(config, {"url"})
       /\ config.type = ConfigureText.cloud
            => /\ DOMAIN config = {"type", "url", "email", "apiToken"}
               /\ Populated(config, {"email", "apiToken"})
       /\ config.type = ConfigureText.datacenter
            => /\ DOMAIN config = {"type", "url", "username", "password"}
               /\ Populated(config, {"username", "password"})

\* a configuration was saved after 'Data Center' was picked, and its kind is
\* the text 'data center'
C33_DataCenterSaved ==
  /\ \E k \in Saves : log[k].b.type = ToLower(ConfigureText.DataCenter)
  /\ store.jiraConfig.type = <<"d", "a", "t", "a", " ", "c", "e", "n", "t", "e", "r">>
  /\ store.jiraConfig.type # ConfigureText.datacenter

\* every saved configuration has a base URL and one pair of credentials, the
\* one of cloud when its kind is 'cloud' and the other one when it is not
C33_OnePairOfCredentials ==
  \A k \in Saves :
    LET config == log[k].b
    IN /\ Populated(config, {"type", "url"})
       /\ IF config.type = ConfigureText.cloud
            THEN /\ DOMAIN config = {"type", "url", "email", "apiToken"}
                 /\ Populated(config, {"email", "apiToken"})
            ELSE /\ DOMAIN config = {"type", "url", "username", "password"}
                 /\ Populated(config, {"username", "password"})

\* a configuration with its four properties, none of them empty
Complete(config) ==
  /\ Cardinality(DOMAIN config) = 4
  /\ Populated(config, DOMAIN config)

\* C37: the stored configuration changes only in the step of _configureJira
\* that received the fourth answer, after all four steps were answered with
\* non-empty values, and that step leaves the stored partial configuration
\* empty and goes on to _fetchJiraIssues; a step that is cancelled or answered
\* with the empty text ends the invocation with the stored configuration as
\* it was and nothing shown or requested, and an invocation that is over
\* stays so.
C37_SavedOnlyWhenComplete ==
  [][\A i \in DOMAIN run :
       /\ store'.jiraConfig # store.jiraConfig
            => \E j \in DOMAIN run :
                 /\ run[j].pc = "c_secret" /\ run'[j].pc = "refresh"
                 /\ Complete(store'.jiraConfig)
                 /\ \A p \in {"type", "url"} : store'.jiraConfig[p] = run[j].partialConfig[p]
       /\ (run[i].pc # "refresh" /\ run'[i].pc = "refresh")
            => /\ run[i].pc = "c_secret"
               /\ Complete(store'.jiraConfig)
               /\ DOMAIN store'.jiraPartialConfig = {}
       /\ (run[i].pc \in {"c_type", "c_url", "c_user", "c_secret"} /\ run'[i].pc = "done")
            => /\ store'.jiraConfig = store.jiraConfig
               /\ log' = log
       /\ run[i].pc = "done" => run'[i].pc = "done"
       /\ (Len(log') > Len(log) /\ log'[Len(log) + 1].inv = i
             /\ (IsCall(log'[Len(log) + 1], "_fetchJiraIssues")
                   \/ log'[Len(log) + 1].ev = "http"))
            => run[i].pc \in {"refresh", "r_projects", "s_boards", "s_board_issues", "s_jql"}
    ]_vars

\* the first invocation saved a configuration over the one stored before; the
\* second was cancelled at its third step, and the configuration of the first
\* is still the stored one
C37_Witness ==
  /\ \E k \in Saves : log[k].inv = 1 /\ store.jiraConfig = log[k].b
  /\ run[1].pc = "done" /\ run[2].pc = "done"
  /\ \A k \in Saves : log[k].inv = 1
  /\ DOMAIN store.jiraPartialConfig = {"type", "url"}
  /\ \E k \in DOMAIN log : log[k].inv = 1 /\ IsCall(log[k], "_fetchJiraIssues")
  /\ \A k \in DOMAIN log : log[k].inv = 2 => ~IsCall(log[k], "_fetchJiraIssues")

\* the property names the stored partial configuration may have
PartialProperties ==
  {"type", "url", "email", "username"}

\* C40: the stored partial configuration has no other properties than type,
\* url, email and username, in every state of the setup flow and in every
\* value the flow writes to it; neither the API token nor the password that
\* was entered is a value of it.
C40_PartialHasNoSecret ==
  /\ DOMAIN store.jiraPartialConfig \subseteq PartialProperties
  /\ \A p \in DOMAIN store.jiraPartialConfig :
       store.jiraPartialConfig[p] \notin {Input.token, Input.password}
  /\ \A k \in DOMAIN log :
       (log[k].ev = "store" /\ log[k].a = "jiraPartialConfig")
       => /\ DOMAIN log[k].b \subseteq PartialProperties
          /\ \A p \in DOMAIN log[k].b : log[k].b[p] \notin {Input.token, Input.password}
  /\ \A i \in DOMAIN run : DOMAIN run[i].partialConfig \subseteq PartialProperties

\* the fourth step of the second invocation was cancelled after the first
\* invocation had saved a configuration with an API token: the partial
\* configuration holds the kind, the URL and the username
C40_Witness ==
  /\ \E k \in Saves : "apiToken" \in DOMAIN log[k].b
  /\ run[2].pc = "done"
  /\ \E k \in DOMAIN log : log[k].inv = 2 /\ log[k].ev = "ask" /\ log[k].b = "password"
  /\ \A k \in Saves : log[k].inv = 1
  /\ DOMAIN store.jiraPartialConfig = {"type", "url", "username"}

-----------------------------------------------------------------------------
(* Overlapping invocations of start work                                   *)

\* the positions of the git commands an invocation ran
GitCommands(i) ==
  {k \in DOMAIN log : log[k].inv = i /\ log[k].ev = "git"}

\* C34: the git commands of one run of _setupGitBranch are never interleaved
\* with those of another run: everything the extension did between two git
\* commands of an invocation was done by that invocation.
C34_GitCommandsNotInterleaved ==
  \A i \in DOMAIN run :
    \A p \in GitCommands(i), r \in GitCommands(i) :
      \A q \in p..r : log[q].inv = i

\* start work on PROJ-8 began while the one on PROJ-7 waited at line 677, ran
\* its git commands first, and the one on PROJ-7 ran its own after them while
\* PROJ-8 waited at the hand-off
C34_Witness ==
  /\ flow = "startWork"
  /\ run[1].pc = "handoff" /\ run[2].pc = "handoff"
  /\ Cardinality(GitCommands(1)) > 1 /\ Cardinality(GitCommands(2)) > 1
  /\ \A p \in GitCommands(2), r \in GitCommands(1) : p < r

\* the positions at which a run of _setupGitBranch began
GitSteps ==
  {k \in DOMAIN log : IsCall(log[k], "_setupGitBranch")}

\* C32: start work has no mutual exclusion: a second start work for another
\* issue on the same directory begins while the first is suspended at an
\* await, and the branch the repository is on is the issue branch of the
\* invocation whose git step ran last, whichever document was delivered last.
C32_BranchOfLastGitStep ==
  flow = "startWork"
  => \A k \in GitSteps :
       (\A m \in GitSteps : m <= k)
       => LET i == log[k].inv
          IN /\ repo.current = BranchName(run[i].issueKey, run[i].issueType)
             /\ repo = run[i].gitRuns[1].after
             /\ \A j \in DOMAIN run :
                  run[j].gitRuns # <<>>
                  => BranchName(run[j].issueKey, run[j].issueType) \in repo.branches

\* the message for PROJ-8 arrived while the start work on PROJ-7 waited at
\* line 677; PROJ-8 ran its git step first and PROJ-7 after it, so the
\* directory is on the branch of PROJ-7, and the document of PROJ-7 was
\* delivered first and that of PROJ-8 last
C32_Witness ==
  /\ flow = "startWork"
  /\ log # <<>> /\ IsCall(log[1], "_startWorkOnIssue") /\ log[1].inv = 2
  /\ \E k \in GitSteps : log[k].inv = 1 /\ \A m \in GitSteps : m <= k
  /\ \E k \in GitSteps : log[k].inv = 2
  /\ repo.current = BranchName(Input.PROJ7, "bug")
  /\ \E k \in Deliveries : log[k].inv = 2 /\ \A m \in Deliveries : m <= k
  /\ \E k \in Deliveries : log[k].inv = 1 /\ log[k].ev = "sink"
  /\ \E k \in Deliveries : log[k].inv = 2 /\ log[k].ev = "sink"

\* the prompt and the attachment list are those one hand-off was called with
FromOneHandOff(prompt, files) ==
  \E m \in DOMAIN log :
    /\ IsCall(log[m], "_executeWithContextAndFiles")
    /\ log[m].b = prompt
    /\ log[m].c = files

\* C35: on the reload path the stored pending prompt and the stored pending
\* attachment list come from the same start work, also when two invocations
\* for a directory other than the open workspace overlap: whenever no
\* invocation is between its two updates the stored pair is the pair of one
\* hand-off, and an activation that finds a prompt finds the attachment list
\* that was handed off with it.
C35_PendingFromOneInvocation ==
  /\ (store.pendingPrompt # <<>> /\ \A i \in DOMAIN run : run[i].pc # "store_attachments")
     => FromOneHandOff(store.pendingPrompt, store.pendingAttachments)
  /\ \A k \in DOMAIN log :
       (IsCall(log[k], "activate") /\ log[k].b # <<>>)
       => FromOneHandOff(log[k].b, log[k].c)

\* both hand-offs stored their prompt before either stored its attachments,
\* PROJ-8 last; the attachments of PROJ-7 were stored last; the extension
\* host that started afterwards found the prompt of PROJ-8 with the
\* attachment file of PROJ-7
C35_MixedActivation ==
  \E k \in DOMAIN log :
    /\ IsCall(log[k], "activate")
    /\ log[k].b = ContextWithInstructions(<<Line("title", Input.PROJ8)>>)
    /\ log[k].c = <<PathJoin(JiraContextDir(DirA, Input.PROJ7), Input.notes_txt)>>
=============================================================================
